---- MODULE Spec2Model ----
(***************************************************************************)
(* The AI orchestrator of MyCookbook (src/ai-orchestrator/main.py): the    *)
(* /extract pipeline (model call, response sanitizer, JSON recovery        *)
(* cascade, schema validation, error classification), /chat and /health.   *)
(*                                                                         *)
(* Text is a sequence of one-character strings, so that strip, startswith, *)
(* slicing, the brace search and json.loads are computed on characters.    *)
(***************************************************************************)
EXTENDS Integers, Sequences, FiniteSets, TLC

(***************************************************************************)
(* Bounds of the model.                                                    *)
(***************************************************************************)
\* longest ingredients array the model collaborator is made to return
MaxIngredients == 2
\* longest steps array the model collaborator is made to return
MaxSteps == 2
\* longest steps list of a chat request
MaxChatSteps == 2

(***************************************************************************)
(* Program constants.                                                      *)
(***************************************************************************)
\* sampling temperatures, in tenths (0.3, 0.1, 0.7)
TEMP_EXTRACT == 3
TEMP_REPAIR == 1
TEMP_CHAT == 7
\* lengths of the fence prefixes sliced off by the sanitizer
LEN_FENCE_JSON == 7
LEN_FENCE == 3

(***************************************************************************)
(* String literals of the source.                                          *)
(***************************************************************************)
K_title == <<"t", "i", "t", "l", "e">>
K_description == <<"d", "e", "s", "c", "r", "i", "p", "t", "i", "o", "n">>
K_ingredients == <<"i", "n", "g", "r", "e", "d", "i", "e", "n", "t", "s">>
K_steps == <<"s", "t", "e", "p", "s">>
K_qty == <<"q", "t", "y">>
K_unit == <<"u", "n", "i", "t">>
K_item == <<"i", "t", "e", "m">>
K_index == <<"i", "n", "d", "e", "x">>
K_text == <<"t", "e", "x", "t">>
K_timestamp_sec == <<"t", "i", "m", "e", "s", "t", "a", "m", "p", "_", "s", "e", "c">>
\* the grave accent (code point 96) is named, as a TLA+ string cannot hold it
GRAVE == "GRAVE"
FENCE == <<GRAVE, GRAVE, GRAVE>>
FENCE_JSON == <<GRAVE, GRAVE, GRAVE, "j", "s", "o", "n">>
S_error == <<"e", "r", "r", "o", "r">>
S_no_recipe == <<"n", "o", " ", "r", "e", "c", "i", "p", "e">>
DEFAULT_DESC == <<"N", "o", " ", "r", "e", "c", "i", "p", "e", " ", "f", "o", "u", "n", "d", " ", "i", "n", " ", "t", "r", "a", "n", "s", "c", "r", "i", "p", "t">>
S_None == <<"N", "o", "n", "e">>
S_True == <<"T", "r", "u", "e">>
S_False == <<"F", "a", "l", "s", "e">>
S_null == <<"n", "u", "l", "l">>
S_true == <<"t", "r", "u", "e">>
S_false == <<"f", "a", "l", "s", "e">>

(***************************************************************************)
(* Python str operations.                                                  *)
(***************************************************************************)
Whitespace == {" ", "\n", "\t", "\r"}

Min(S) == CHOOSE x \in S : \A y \in S : x <= y
Max(S) == CHOOSE x \in S : \A y \in S : x >= y

\* str.strip(): drop leading and trailing whitespace
strip(s) ==
    LET keep == {i \in 1..Len(s) : s[i] \notin Whitespace}
    IN  IF keep = {} THEN <<>> ELSE SubSeq(s, Min(keep), Max(keep))

startswith(s, prefix) ==
    /\ Len(s) >= Len(prefix)
    /\ SubSeq(s, 1, Len(prefix)) = prefix

endswith(s, suffix) ==
    /\ Len(s) >= Len(suffix)
    /\ SubSeq(s, Len(s) - Len(suffix) + 1, Len(s)) = suffix

\* the `in` operator on two strings: sub occurs in s
contains(s, sub) ==
    \E i \in 0..(Len(s) - Len(sub)) : SubSeq(s, i + 1, i + Len(sub)) = sub

UpperToLower ==
    [c \in {"A", "B", "C", "D", "E", "F", "G", "H", "I", "J", "K", "L", "M",
            "N", "O", "P", "Q", "R", "S", "T", "U", "V", "W", "X", "Y", "Z"} |->
        CASE c = "A" -> "a" [] c = "B" -> "b" [] c = "C" -> "c" [] c = "D" -> "d"
          [] c = "E" -> "e" [] c = "F" -> "f" [] c = "G" -> "g" [] c = "H" -> "h"
          [] c = "I" -> "i" [] c = "J" -> "j" [] c = "K" -> "k" [] c = "L" -> "l"
          [] c = "M" -> "m" [] c = "N" -> "n" [] c = "O" -> "o" [] c = "P" -> "p"
          [] c = "Q" -> "q" [] c = "R" -> "r" [] c = "S" -> "s" [] c = "T" -> "t"
          [] c = "U" -> "u" [] c = "V" -> "v" [] c = "W" -> "w" [] c = "X" -> "x"
          [] c = "Y" -> "y" [] c = "Z" -> "z"]

\* str.lower()
lower(s) ==
    [i \in 1..Len(s) |-> IF s[i] \in DOMAIN UpperToLower THEN UpperToLower[s[i]] ELSE s[i]]

(***************************************************************************)
(* ResponseSanitizer: main.py lines 180-187.                               *)
(***************************************************************************)
\* mutant: the strip of line 187 is left out
cleaned_content_no_final_strip(content) ==
    LET c0 == strip(content)
        c1 == IF startswith(c0, FENCE_JSON) THEN SubSeq(c0, LEN_FENCE_JSON + 1, Len(c0))
              ELSE IF startswith(c0, FENCE) THEN SubSeq(c0, LEN_FENCE + 1, Len(c0))
              ELSE c0
    IN  IF endswith(c1, FENCE) THEN SubSeq(c1, 1, Len(c1) - LEN_FENCE) ELSE c1

cleaned_content(content) ==
    LET c0 == strip(content)
        c1 == IF startswith(c0, FENCE_JSON) THEN SubSeq(c0, LEN_FENCE_JSON + 1, Len(c0))
              ELSE IF startswith(c0, FENCE) THEN SubSeq(c0, LEN_FENCE + 1, Len(c0))
              ELSE c0
        c2 == IF endswith(c1, FENCE) THEN SubSeq(c1, 1, Len(c1) - LEN_FENCE) ELSE c1
    IN  strip(c2)

\* The regular-expression search of line 193 (an opening brace, anything
\* across newlines, a closing brace; greedy): the span from the first
\* opening brace to the last closing brace after it.  The empty text stands
\* for "no match" (a match is never empty).
json_match(content) ==
    LET opens == {i \in 1..Len(content) : content[i] = "{"}
        closes == {i \in 1..Len(content) : content[i] = "}"}
    IN  IF opens # {} /\ closes # {} /\ Max(closes) > Min(opens)
        THEN SubSeq(content, Min(opens), Max(closes))
        ELSE <<>>

(***************************************************************************)
(* JSON values as Python objects: str, int, bool, None, list, dict.  One   *)
(* record shape for all of them; a dict keeps its keys in insertion order. *)
(***************************************************************************)
JStr(s) == [t |-> "str", s |-> s, n |-> 0, k |-> <<>>, v |-> <<>>]
JInt(n) == [t |-> "int", s |-> <<>>, n |-> n, k |-> <<>>, v |-> <<>>]
JBool(b) == [t |-> "bool", s |-> <<>>, n |-> IF b THEN 1 ELSE 0, k |-> <<>>, v |-> <<>>]
JNull == [t |-> "None", s |-> <<>>, n |-> 0, k |-> <<>>, v |-> <<>>]
JList(items) == [t |-> "list", s |-> <<>>, n |-> 0, k |-> <<>>, v |-> items]
JObj(keys, vals) == [t |-> "dict", s |-> <<>>, n |-> 0, k |-> keys, v |-> vals]

\* dict[key] = val: a repeated key keeps its place and takes the last value
DictPut(d, key, val) ==
    IF \E i \in 1..Len(d.k) : d.k[i] = key
    THEN LET i == CHOOSE j \in 1..Len(d.k) : d.k[j] = key
         IN  [d EXCEPT !.v[i] = val]
    ELSE [d EXCEPT !.k = Append(@, key), !.v = Append(@, val)]

HasKey(d, key) == \E i \in 1..Len(d.k) : d.k[i] = key
DictGet(d, key) == d.v[CHOOSE j \in 1..Len(d.k) : d.k[j] = key]

Digits == <<"0", "1", "2", "3", "4", "5", "6", "7", "8", "9">>
IsDigit(c) == \E d \in 1..10 : Digits[d] = c
DigitValue(c) == (CHOOSE d \in 1..10 : Digits[d] = c) - 1

(***************************************************************************)
(* json.loads (main.py lines 189, 196, 207) on the JSON subset that the    *)
(* model alphabet can spell: objects, arrays, strings with the two-character *)
(* escapes of the quote, the backslash, the slash, newline, tab and        *)
(* carriage return, integers, true, false, null, whitespace between        *)
(* tokens.  A parse result is [ok, v, i]: success, the value, the index    *)
(* after it.                                                               *)
(***************************************************************************)
ParseFail == [ok |-> FALSE, v |-> JNull, i |-> 0]
ParseOk(v, i) == [ok |-> TRUE, v |-> v, i |-> i]

RECURSIVE SkipWs(_, _)
SkipWs(t, i) == IF i <= Len(t) /\ t[i] \in Whitespace THEN SkipWs(t, i + 1) ELSE i

\* the characters that may follow a backslash inside a string
EscapeLetters == {"\"", "\\", "/", "n", "t", "r"}

\* index of the closing quote of the string whose content starts at i, or 0
\* (a raw control character or a bad escape inside a string is an error)
RECURSIVE ScanString(_, _)
ScanString(t, i) ==
    IF i > Len(t) THEN 0
    ELSE IF t[i] = "\"" THEN i
    ELSE IF t[i] \in {"\n", "\t", "\r"} THEN 0
    ELSE IF t[i] = "\\"
    THEN IF i + 1 <= Len(t) /\ t[i + 1] \in EscapeLetters THEN ScanString(t, i + 2) ELSE 0
    ELSE ScanString(t, i + 1)

\* the characters a scanned string content stands for
RECURSIVE Unescape(_)
Unescape(s) ==
    IF s = <<>> THEN <<>>
    ELSE IF s[1] = "\\"
    THEN <<CASE s[2] = "n" -> "\n"
             [] s[2] = "t" -> "\t"
             [] s[2] = "r" -> "\r"
             [] OTHER -> s[2]>> \o Unescape(SubSeq(s, 3, Len(s)))
    ELSE <<s[1]>> \o Unescape(Tail(s))

\* index after the last digit of the digit run starting at i
RECURSIVE ScanDigits(_, _)
ScanDigits(t, i) == IF i <= Len(t) /\ IsDigit(t[i]) THEN ScanDigits(t, i + 1) ELSE i

RECURSIVE DigitsToInt(_, _, _, _)
DigitsToInt(t, i, j, acc) ==
    IF i >= j THEN acc ELSE DigitsToInt(t, i + 1, j, acc * 10 + DigitValue(t[i]))

\* -?(0|[1-9][0-9]*)
ParseNumber(t, i) ==
    LET neg == t[i] = "-"
        d == IF neg THEN i + 1 ELSE i
    IN  IF d > Len(t) \/ ~IsDigit(t[d]) THEN ParseFail
        ELSE LET e == IF t[d] = "0" THEN d + 1 ELSE ScanDigits(t, d)
                 n == DigitsToInt(t, d, e, 0)
             IN  ParseOk(JInt(IF neg THEN 0 - n ELSE n), e)

ParseLiteral(t, i, word, v) ==
    IF i + Len(word) - 1 <= Len(t) /\ SubSeq(t, i, i + Len(word) - 1) = word
    THEN ParseOk(v, i + Len(word))
    ELSE ParseFail

RECURSIVE ParseValue(_, _)
RECURSIVE ParseMembers(_, _, _)
RECURSIVE ParseElements(_, _, _)

\* a value starting exactly at i
ParseValue(t, i) ==
    IF i > Len(t) THEN ParseFail
    ELSE IF t[i] = "\"" THEN
        LET q == ScanString(t, i + 1)
        IN  IF q = 0 THEN ParseFail ELSE ParseOk(JStr(Unescape(SubSeq(t, i + 1, q - 1))), q + 1)
    ELSE IF t[i] = "{" THEN
        LET j == SkipWs(t, i + 1)
        IN  IF j <= Len(t) /\ t[j] = "}" THEN ParseOk(JObj(<<>>, <<>>), j + 1)
            ELSE ParseMembers(t, j, JObj(<<>>, <<>>))
    ELSE IF t[i] = "[" THEN
        LET j == SkipWs(t, i + 1)
        IN  IF j <= Len(t) /\ t[j] = "]" THEN ParseOk(JList(<<>>), j + 1)
            ELSE ParseElements(t, j, <<>>)
    ELSE IF t[i] = "n" THEN ParseLiteral(t, i, S_null, JNull)
    ELSE IF t[i] = "t" THEN ParseLiteral(t, i, S_true, JBool(TRUE))
    ELSE IF t[i] = "f" THEN ParseLiteral(t, i, S_false, JBool(FALSE))
    ELSE IF t[i] = "-" \/ IsDigit(t[i]) THEN ParseNumber(t, i)
    ELSE ParseFail

\* "key" : value, then ',' and another member or '}'; i is at the key
ParseMembers(t, i, d) ==
    IF i > Len(t) \/ t[i] # "\"" THEN ParseFail
    ELSE LET q == ScanString(t, i + 1)
         IN  IF q = 0 THEN ParseFail
             ELSE LET key == Unescape(SubSeq(t, i + 1, q - 1))
                      c == SkipWs(t, q + 1)
                  IN  IF c > Len(t) \/ t[c] # ":" THEN ParseFail
                      ELSE LET r == ParseValue(t, SkipWs(t, c + 1))
                           IN  IF ~r.ok THEN ParseFail
                               ELSE LET e == SkipWs(t, r.i)
                                        d2 == DictPut(d, key, r.v)
                                    IN  IF e > Len(t) THEN ParseFail
                                        ELSE IF t[e] = "}" THEN ParseOk(d2, e + 1)
                                        ELSE IF t[e] = "," THEN ParseMembers(t, SkipWs(t, e + 1), d2)
                                        ELSE ParseFail

\* value, then ',' and another element or ']'; i is at the value
ParseElements(t, i, items) ==
    LET r == ParseValue(t, i)
    IN  IF ~r.ok THEN ParseFail
        ELSE LET e == SkipWs(t, r.i)
                 items2 == Append(items, r.v)
             IN  IF e > Len(t) THEN ParseFail
                 ELSE IF t[e] = "]" THEN ParseOk(JList(items2), e + 1)
                 ELSE IF t[e] = "," THEN ParseElements(t, SkipWs(t, e + 1), items2)
                 ELSE ParseFail

\* json.loads(text): one value, whitespace around it, nothing else;
\* ok = FALSE is json.JSONDecodeError
json_loads(text) ==
    LET r == ParseValue(text, SkipWs(text, 1))
    IN  IF r.ok /\ SkipWs(text, r.i) > Len(text) THEN r ELSE ParseFail

(***************************************************************************)
(* Python coercions used by the validator: str(x) and int(x).              *)
(***************************************************************************)
RECURSIVE NatToStr(_)
NatToStr(n) == IF n < 10 THEN <<Digits[n + 1]>> ELSE NatToStr(n \div 10) \o <<Digits[(n % 10) + 1]>>

IntToStr(n) == IF n < 0 THEN <<"-">> \o NatToStr(0 - n) ELSE NatToStr(n)

RECURSIVE Join(_, _)
Join(parts, sep) ==
    IF parts = <<>> THEN <<>>
    ELSE IF Len(parts) = 1 THEN parts[1]
    ELSE parts[1] \o sep \o Join(Tail(parts), sep)

\* repr(x)
RECURSIVE PyRepr(_)
PyRepr(x) ==
    CASE x.t = "str" -> <<"'">> \o x.s \o <<"'">>
      [] x.t = "int" -> IntToStr(x.n)
      [] x.t = "bool" -> IF x.n = 1 THEN S_True ELSE S_False
      [] x.t = "None" -> S_None
      [] x.t = "list" ->
            <<"[">> \o Join([i \in 1..Len(x.v) |-> PyRepr(x.v[i])], <<",", " ">>) \o <<"]">>
      [] x.t = "dict" ->
            <<"{">>
            \o Join([i \in 1..Len(x.k) |->
                        <<"'">> \o x.k[i] \o <<"'", ":", " ">> \o PyRepr(x.v[i])],
                    <<",", " ">>)
            \o <<"}">>

\* str(x)
\* mutant: repr() in the place of str()
PyStr_repr(x) == PyRepr(x)

PyStr(x) == IF x.t = "str" THEN x.s ELSE PyRepr(x)

\* int(x): [exc, n]; exc is "" on success, else the exception class raised
IntOk(n) == [exc |-> "", n |-> n]
IntRaise(exc) == [exc |-> exc, n |-> 0]

PyInt(x) ==
    CASE x.t \in {"int", "bool"} -> IntOk(x.n)
      [] x.t = "str" ->
            LET s == strip(x.s)
                signed == s # <<>> /\ s[1] \in {"-", "+"}
                d == IF signed THEN Tail(s) ELSE s
            IN  IF d # <<>> /\ \A i \in 1..Len(d) : IsDigit(d[i])
                THEN LET n == DigitsToInt(d, 1, Len(d) + 1, 0)
                     IN  IntOk(IF signed /\ s[1] = "-" THEN 0 - n ELSE n)
                ELSE IntRaise("ValueError")
      [] OTHER -> IntRaise("TypeError")

(***************************************************************************)
(* json encoding of a value, compact separators: the text of a response    *)
(* body, and the way the model collaborator spells a value it returns.     *)
(***************************************************************************)
\* the content of a JSON string for the characters of s
RECURSIVE Escape(_)
Escape(s) ==
    IF s = <<>> THEN <<>>
    ELSE (CASE s[1] = "\"" -> <<"\\", "\"">>
            [] s[1] = "\\" -> <<"\\", "\\">>
            [] s[1] = "\n" -> <<"\\", "n">>
            [] s[1] = "\t" -> <<"\\", "t">>
            [] s[1] = "\r" -> <<"\\", "r">>
            [] OTHER -> <<s[1]>>) \o Escape(Tail(s))

RECURSIVE json_dumps(_)
json_dumps(x) ==
    CASE x.t = "str" -> <<"\"">> \o Escape(x.s) \o <<"\"">>
      [] x.t = "int" -> IntToStr(x.n)
      [] x.t = "bool" -> IF x.n = 1 THEN S_true ELSE S_false
      [] x.t = "None" -> S_null
      [] x.t = "list" ->
            <<"[">> \o Join([i \in 1..Len(x.v) |-> json_dumps(x.v[i])], <<",">>) \o <<"]">>
      [] x.t = "dict" ->
            <<"{">>
            \o Join([i \in 1..Len(x.k) |->
                        <<"\"">> \o Escape(x.k[i]) \o <<"\"", ":">> \o json_dumps(x.v[i])],
                    <<",">>)
            \o <<"}">>

(***************************************************************************)
(* Exceptions and results.  An exception is [cls, msg, pos, text, api]:    *)
(* its class, its message template, the position the message quotes (0     *)
(* when it quotes none), the text it quotes, and whether str(e).lower()    *)
(* contains "api" or "gemini" (lines 285-286).                             *)
(***************************************************************************)
Exc(cls, msg, pos) == [cls |-> cls, msg |-> msg, pos |-> pos, text |-> <<>>, api |-> FALSE]
NoExc == Exc("", "", 0)

\* the exception classes that `except ValueError` catches (json.JSONDecodeError
\* and pydantic's ValidationError derive from ValueError)
IsValueError(cls) == cls \in {"ValueError", "JSONDecodeError", "ValidationError"}

\* ExtractResponse: title, description, ingredients, steps (lines 64-68)
ExtractResponse(title, description, ingredients, steps) ==
    [title |-> title, description |-> description,
     ingredients |-> ingredients, steps |-> steps]
NoRecipe == ExtractResponse(<<>>, JNull, <<>>, <<>>)

Ingredient(qty, unit, item) == [qty |-> qty, unit |-> unit, item |-> item]
Step(index, text, timestamp_sec) ==
    [index |-> index, text |-> text, timestamp_sec |-> timestamp_sec]

\* the JSON body FastAPI writes for an ExtractResponse (response_model of
\* line 144 over the models of lines 45-68), fields in declaration order
Serialize(recipe) ==
    json_dumps(JObj(<<K_title, K_description, K_ingredients, K_steps>>,
        <<JStr(recipe.title),
          recipe.description,
          JList([i \in 1..Len(recipe.ingredients) |->
                    JObj(<<K_qty, K_unit, K_item>>,
                         <<JStr(recipe.ingredients[i].qty),
                           JStr(recipe.ingredients[i].unit),
                           JStr(recipe.ingredients[i].item)>>)]),
          JList([i \in 1..Len(recipe.steps) |->
                    JObj(<<K_index, K_text, K_timestamp_sec>>,
                         <<JInt(recipe.steps[i].index),
                           JStr(recipe.steps[i].text),
                           JInt(recipe.steps[i].timestamp_sec)>>)])>>))

\* the outcome of the validation block: an exception or the ExtractResponse
Raised(e) == [exc |-> e, recipe |-> NoRecipe]
Returned(r) == [exc |-> NoExc, recipe |-> r]

(***************************************************************************)
(* SchemaValidator: main.py lines 213-275.                                 *)
(***************************************************************************)
\* `key in x` for a str key: "yes", "no", or "TypeError" when x is no container
PyIn(key, x) ==
    CASE x.t = "dict" -> IF HasKey(x, key) THEN "yes" ELSE "no"
      [] x.t = "list" -> IF \E i \in 1..Len(x.v) : x.v[i] = JStr(key) THEN "yes" ELSE "no"
      [] x.t = "str" -> IF contains(x.s, key) THEN "yes" ELSE "no"
      [] OTHER -> "TypeError"

\* lines 216 and 218: `key not in recipe_data or not isinstance(recipe_data[key], list)`
\* "ok", "invalid" (the condition is true), or "TypeError" (`in` or the
\* subscript raises: only a dict takes a str subscript)
ListField(recipe_data, key) ==
    LET has == PyIn(key, recipe_data)
    IN  IF has = "TypeError" THEN "TypeError"
        ELSE IF has = "no" THEN "invalid"
        ELSE IF recipe_data.t # "dict" THEN "TypeError"
        ELSE IF DictGet(recipe_data, key).t # "list" THEN "invalid"
        ELSE "ok"

\* mutant: line 227 tests `and` for `or`
EmptyRecipeCheck_both_empty(recipe_data, ingredients_list, steps_list) ==
    IF ingredients_list = <<>> /\ steps_list = <<>>
    THEN LET error_desc == IF HasKey(recipe_data, K_description)
                           THEN DictGet(recipe_data, K_description)
                           ELSE JStr(DEFAULT_DESC)
         IN  IF error_desc.t # "str"
             THEN Exc("AttributeError", "object has no attribute 'lower'", 0)
             ELSE IF contains(lower(error_desc.s), S_error)
                     \/ contains(lower(error_desc.s), S_no_recipe)
             THEN [Exc("HTTPException", "Recipe extraction failed", 0)
                      EXCEPT !.text = error_desc.s]
             ELSE NoExc
    ELSE NoExc

\* mutant: the description is tested whether or not an array is empty
EmptyRecipeCheck_always(recipe_data, ingredients_list, steps_list) ==
    LET error_desc == IF HasKey(recipe_data, K_description)
                      THEN DictGet(recipe_data, K_description)
                      ELSE JStr(DEFAULT_DESC)
    IN  IF error_desc.t # "str"
        THEN Exc("AttributeError", "object has no attribute 'lower'", 0)
        ELSE IF contains(lower(error_desc.s), S_error)
                \/ contains(lower(error_desc.s), S_no_recipe)
        THEN [Exc("HTTPException", "Recipe extraction failed", 0)
                 EXCEPT !.text = error_desc.s]
        ELSE NoExc

\* lines 227-233, the empty-recipe check: the exception it raises, or NoExc
EmptyRecipeCheck(recipe_data, ingredients_list, steps_list) ==
    IF ingredients_list = <<>> \/ steps_list = <<>>
    THEN LET error_desc == IF HasKey(recipe_data, K_description)
                           THEN DictGet(recipe_data, K_description)
                           ELSE JStr(DEFAULT_DESC)
         IN  IF error_desc.t # "str"
             THEN Exc("AttributeError", "object has no attribute 'lower'", 0)
             ELSE IF contains(lower(error_desc.s), S_error)
                     \/ contains(lower(error_desc.s), S_no_recipe)
             THEN [Exc("HTTPException", "Recipe extraction failed", 0)
                      EXCEPT !.text = error_desc.s]
             ELSE NoExc
    ELSE NoExc

\* mutant: line 245 tests `not qty` only, without the strip
ValidateIngredient_no_strip(ing, i) ==
    IF ing.t # "dict"
    THEN [exc |-> Exc("ValueError", "Ingredient is not an object", i + 1),
          item |-> Ingredient(<<>>, <<>>, <<>>)]
    ELSE IF ~HasKey(ing, K_qty) \/ ~HasKey(ing, K_unit) \/ ~HasKey(ing, K_item)
    THEN [exc |-> Exc("ValueError", "Ingredient missing required fields (qty, unit, item)", i + 1),
          item |-> Ingredient(<<>>, <<>>, <<>>)]
    ELSE LET qty == PyStr(DictGet(ing, K_qty))
             unit == PyStr(DictGet(ing, K_unit))
             item == PyStr(DictGet(ing, K_item))
         IN  IF qty = <<>>
             THEN [exc |-> Exc("ValueError", "Ingredient qty must not be empty", i + 1),
                   item |-> Ingredient(<<>>, <<>>, <<>>)]
             ELSE [exc |-> NoExc, item |-> Ingredient(qty, unit, item)]

\* lines 238-255, one ingredient at 0-based position i: [exc, item]
ValidateIngredient(ing, i) ==
    IF ing.t # "dict"
    THEN [exc |-> Exc("ValueError", "Ingredient is not an object", i + 1),
          item |-> Ingredient(<<>>, <<>>, <<>>)]
    ELSE IF ~HasKey(ing, K_qty) \/ ~HasKey(ing, K_unit) \/ ~HasKey(ing, K_item)
    THEN [exc |-> Exc("ValueError", "Ingredient missing required fields (qty, unit, item)", i + 1),
          item |-> Ingredient(<<>>, <<>>, <<>>)]
    ELSE LET qty == PyStr(DictGet(ing, K_qty))
             unit == PyStr(DictGet(ing, K_unit))
             item == PyStr(DictGet(ing, K_item))
         IN  IF qty = <<>> \/ strip(qty) = <<>>
             THEN [exc |-> Exc("ValueError", "Ingredient qty must not be empty", i + 1),
                   item |-> Ingredient(<<>>, <<>>, <<>>)]
             ELSE [exc |-> NoExc, item |-> Ingredient(qty, unit, item)]

\* lines 237-255, the loop from 0-based position i on: [exc, items]
RECURSIVE ValidateIngredients(_, _, _)
ValidateIngredients(ingredients_list, i, validated_ingredients) ==
    IF i >= Len(ingredients_list)
    THEN [exc |-> NoExc, items |-> validated_ingredients]
    ELSE LET r == ValidateIngredient(ingredients_list[i + 1], i)
         IN  IF r.exc # NoExc THEN [exc |-> r.exc, items |-> <<>>]
             ELSE ValidateIngredients(ingredients_list, i + 1,
                                      Append(validated_ingredients, r.item))

\* mutant: the steps are renumbered by position, the index of the output is dropped
ValidateStep_renumbered(step, i) ==
    IF step.t # "dict"
    THEN [exc |-> Exc("ValueError", "Step is not an object", i + 1), item |-> Step(0, <<>>, 0)]
    ELSE IF ~HasKey(step, K_index) \/ ~HasKey(step, K_text) \/ ~HasKey(step, K_timestamp_sec)
    THEN [exc |-> Exc("ValueError", "Step missing required fields", i + 1),
          item |-> Step(0, <<>>, 0)]
    ELSE LET index == PyInt(DictGet(step, K_index))
             text == PyStr(DictGet(step, K_text))
             timestamp_sec == PyInt(DictGet(step, K_timestamp_sec))
         IN  IF index.exc = "ValueError" \/ timestamp_sec.exc = "ValueError"
             THEN [exc |-> Exc("ValueError", "invalid literal for int() with base 10", 0),
                   item |-> Step(0, <<>>, 0)]
             ELSE IF index.exc = "TypeError" \/ timestamp_sec.exc = "TypeError"
             THEN [exc |-> Exc("TypeError", "int() argument must be a string or a number", 0),
                   item |-> Step(0, <<>>, 0)]
             ELSE [exc |-> NoExc, item |-> Step(i + 1, text, timestamp_sec.n)]

\* lines 258-268, one step at 0-based position i: [exc, item].  The Step
\* arguments are evaluated left to right: int(index), str(text), int(timestamp_sec);
\* the message of a failed int() quotes no position.
ValidateStep(step, i) ==
    IF step.t # "dict"
    THEN [exc |-> Exc("ValueError", "Step is not an object", i + 1), item |-> Step(0, <<>>, 0)]
    ELSE IF ~HasKey(step, K_index) \/ ~HasKey(step, K_text) \/ ~HasKey(step, K_timestamp_sec)
    THEN [exc |-> Exc("ValueError", "Step missing required fields", i + 1),
          item |-> Step(0, <<>>, 0)]
    ELSE LET index == PyInt(DictGet(step, K_index))
             text == PyStr(DictGet(step, K_text))
             timestamp_sec == PyInt(DictGet(step, K_timestamp_sec))
         IN  IF index.exc = "ValueError"
             THEN [exc |-> Exc("ValueError", "invalid literal for int() with base 10", 0),
                   item |-> Step(0, <<>>, 0)]
             ELSE IF index.exc = "TypeError"
             THEN [exc |-> Exc("TypeError", "int() argument must be a string or a number", 0),
                   item |-> Step(0, <<>>, 0)]
             ELSE IF timestamp_sec.exc = "ValueError"
             THEN [exc |-> Exc("ValueError", "invalid literal for int() with base 10", 0),
                   item |-> Step(0, <<>>, 0)]
             ELSE IF timestamp_sec.exc = "TypeError"
             THEN [exc |-> Exc("TypeError", "int() argument must be a string or a number", 0),
                   item |-> Step(0, <<>>, 0)]
             ELSE [exc |-> NoExc, item |-> Step(index.n, text, timestamp_sec.n)]

\* lines 257-268, the loop from 0-based position i on: [exc, items]
RECURSIVE ValidateSteps(_, _, _)
ValidateSteps(steps_list, i, validated_steps) ==
    IF i >= Len(steps_list)
    THEN [exc |-> NoExc, items |-> validated_steps]
    ELSE LET r == ValidateStep(steps_list[i + 1], i)
         IN  IF r.exc # NoExc THEN [exc |-> r.exc, items |-> <<>>]
             ELSE ValidateSteps(steps_list, i + 1, Append(validated_steps, r.item))

\* lines 270-275: ExtractResponse(...) validates description as Optional[str].
\* pydantic 2 rejects every non-str; pydantic 1 turns an int (bool included)
\* into its str and rejects the rest.  [exc, description]
DescriptionField(recipe_data, pyd) ==
    LET d == IF HasKey(recipe_data, K_description)
             THEN DictGet(recipe_data, K_description) ELSE JNull
    IN  IF d.t \in {"str", "None"} THEN [exc |-> NoExc, description |-> d]
        ELSE IF pyd = 1 /\ d.t \in {"int", "bool"}
        THEN [exc |-> NoExc, description |-> JStr(PyStr(d))]
        ELSE [exc |-> Exc("ValidationError", "description: str type expected", 0),
              description |-> JNull]

\* mutant: the empty-recipe check of lines 226-233 runs after the two loops
Validate_items_first(recipe_data, pyd) ==
    LET has_title == PyIn(K_title, recipe_data)
        ingredients == ListField(recipe_data, K_ingredients)
        steps == ListField(recipe_data, K_steps)
    IN  IF has_title = "TypeError"
        THEN Raised(Exc("TypeError", "argument is not iterable", 0))
        ELSE IF has_title = "no"
        THEN Raised(Exc("ValueError", "Missing 'title' in response", 0))
        ELSE IF ingredients = "TypeError"
        THEN Raised(Exc("TypeError", "indices must be integers", 0))
        ELSE IF ingredients = "invalid"
        THEN Raised(Exc("ValueError", "Missing or invalid 'ingredients' in response", 0))
        ELSE IF steps = "TypeError"
        THEN Raised(Exc("TypeError", "indices must be integers", 0))
        ELSE IF steps = "invalid"
        THEN Raised(Exc("ValueError", "Missing or invalid 'steps' in response", 0))
        ELSE
        LET ingredients_list == DictGet(recipe_data, K_ingredients).v
            steps_list == DictGet(recipe_data, K_steps).v
            declined == EmptyRecipeCheck(recipe_data, ingredients_list, steps_list)
            vi == ValidateIngredients(ingredients_list, 0, <<>>)
            vs == ValidateSteps(steps_list, 0, <<>>)
            desc == DescriptionField(recipe_data, pyd)
        IN  IF vi.exc # NoExc THEN Raised(vi.exc)
            ELSE IF vs.exc # NoExc THEN Raised(vs.exc)
            ELSE IF declined # NoExc THEN Raised(declined)
            ELSE IF desc.exc # NoExc THEN Raised(desc.exc)
            ELSE Returned(ExtractResponse(PyStr(DictGet(recipe_data, K_title)),
                                          desc.description, vi.items, vs.items))

\* lines 213-275 on the parsed value, under pydantic major version pyd
Validate(recipe_data, pyd) ==
    LET has_title == PyIn(K_title, recipe_data)
        ingredients == ListField(recipe_data, K_ingredients)
        steps == ListField(recipe_data, K_steps)
    IN  IF has_title = "TypeError"
        THEN Raised(Exc("TypeError", "argument is not iterable", 0))
        ELSE IF has_title = "no"
        THEN Raised(Exc("ValueError", "Missing 'title' in response", 0))
        ELSE IF ingredients = "TypeError"
        THEN Raised(Exc("TypeError", "indices must be integers", 0))
        ELSE IF ingredients = "invalid"
        THEN Raised(Exc("ValueError", "Missing or invalid 'ingredients' in response", 0))
        ELSE IF steps = "TypeError"
        THEN Raised(Exc("TypeError", "indices must be integers", 0))
        ELSE IF steps = "invalid"
        THEN Raised(Exc("ValueError", "Missing or invalid 'steps' in response", 0))
        ELSE
        LET ingredients_list == DictGet(recipe_data, K_ingredients).v
            steps_list == DictGet(recipe_data, K_steps).v
            declined == EmptyRecipeCheck(recipe_data, ingredients_list, steps_list)
            vi == ValidateIngredients(ingredients_list, 0, <<>>)
            vs == ValidateSteps(steps_list, 0, <<>>)
            desc == DescriptionField(recipe_data, pyd)
        IN  IF declined # NoExc THEN Raised(declined)
            ELSE IF vi.exc # NoExc THEN Raised(vi.exc)
            ELSE IF vs.exc # NoExc THEN Raised(vs.exc)
            ELSE IF desc.exc # NoExc THEN Raised(desc.exc)
            ELSE Returned(ExtractResponse(PyStr(DictGet(recipe_data, K_title)),
                                          desc.description, vi.items, vs.items))

(***************************************************************************)
(* HTTP responses.  [status, detail, msg, pos, text, recipe]: detail is    *)
(* the prefix the handler puts before the cause, msg and pos the cause,    *)
(* text the quoted description (422 declined) or the chat message (200).   *)
(***************************************************************************)
Resp(status, detail, msg, pos, text, recipe) ==
    [status |-> status, detail |-> detail, msg |-> msg, pos |-> pos,
     text |-> text, recipe |-> recipe]
NoResponse == Resp(0, "", "", 0, <<>>, NoRecipe)

\* lines 277-294: the exception handlers around the body of extract_recipe
extract_except(e) ==
    IF IsValueError(e.cls)
    THEN Resp(422, "Invalid response format", e.msg, e.pos, e.text, NoRecipe)
    ELSE IF e.cls = "HTTPException"
    THEN Resp(422, e.msg, "", e.pos, e.text, NoRecipe)
    ELSE IF e.api
    THEN Resp(503, "Gemini API error", e.msg, e.pos, e.text, NoRecipe)
    ELSE Resp(500, "Internal error", e.msg, e.pos, e.text, NoRecipe)

\* lines 366-383: the exception handlers around the body of chat
chat_except(e) ==
    IF IsValueError(e.cls)
    THEN Resp(422, "Invalid request", e.msg, e.pos, e.text, NoRecipe)
    ELSE IF e.cls = "HTTPException"
    THEN Resp(422, e.msg, "", e.pos, e.text, NoRecipe)
    ELSE IF e.api
    THEN Resp(503, "Gemini API error", e.msg, e.pos, e.text, NoRecipe)
    ELSE Resp(500, "Internal error", e.msg, e.pos, e.text, NoRecipe)

(***************************************************************************)
(* What the model collaborator may answer (response.text, lines 173, 207,  *)
(* 360): JSON values of every shape the validator tells apart, spelled     *)
(* bare, and a few payloads in every wrapping the cascade tells apart.     *)
(***************************************************************************)
SeqsFromTo(S, lo, hi) == UNION {[1..m -> S] : m \in lo..hi}

Obj(pairs) == JObj([i \in 1..Len(pairs) |-> pairs[i][1]], [i \in 1..Len(pairs) |-> pairs[i][2]])

D_tasty == <<"T", "a", "s", "t", "y">>
D_error == <<"a", "n", " ", "E", "R", "R", "O", "R">>
D_no_recipe == <<"N", "o", " ", "R", "e", "c", "i", "p", "e">>

good_ingredient == Obj(<< <<K_qty, JStr(<<"2">>)>>, <<K_unit, JStr(<<"g">>)>>, <<K_item, JStr(<<"x">>)>> >>)
blank_qty_ingredient == Obj(<< <<K_qty, JStr(<<" ">>)>>, <<K_unit, JStr(<<"g">>)>>, <<K_item, JStr(<<"x">>)>> >>)
empty_qty_ingredient == Obj(<< <<K_qty, JStr(<<>>)>>, <<K_unit, JStr(<<"g">>)>>, <<K_item, JStr(<<"x">>)>> >>)
\* qty ends in a newline, unit is a quote, item is a backslash
escaped_ingredient ==
    Obj(<< <<K_qty, JStr(<<"1", "\n">>)>>, <<K_unit, JStr(<<"\"">>)>>, <<K_item, JStr(<<"\\">>)>> >>)
coerced_ingredient == Obj(<< <<K_qty, JInt(3)>>, <<K_unit, JNull>>, <<K_item, JStr(<<"y">>)>> >>)
short_ingredient == Obj(<< <<K_qty, JStr(<<"2">>)>>, <<K_unit, JStr(<<"g">>)>> >>)

IngredientChoices ==
    {good_ingredient, blank_qty_ingredient, coerced_ingredient, short_ingredient, JInt(5)}

good_step == Obj(<< <<K_index, JInt(1)>>, <<K_text, JStr(<<"a">>)>>, <<K_timestamp_sec, JInt(0)>> >>)
coerced_step == Obj(<< <<K_index, JStr(<<"2">>)>>, <<K_text, JStr(<<"b">>)>>, <<K_timestamp_sec, JInt(17)>> >>)
bad_index_step == Obj(<< <<K_index, JStr(<<"a">>)>>, <<K_text, JStr(<<"a">>)>>, <<K_timestamp_sec, JInt(0)>> >>)
null_timestamp_step == Obj(<< <<K_index, JInt(1)>>, <<K_text, JStr(<<"a">>)>>, <<K_timestamp_sec, JNull>> >>)
short_step == Obj(<< <<K_index, JInt(1)>>, <<K_text, JStr(<<"a">>)>> >>)
later_step == Obj(<< <<K_index, JInt(2)>>, <<K_text, JStr(<<"b">>)>>, <<K_timestamp_sec, JInt(17)>> >>)

StepChoices ==
    {good_step, coerced_step, bad_index_step, null_timestamp_step, short_step, JNull}

TitleOptions == {<<>>, << <<K_title, JStr(<<"T">>)>> >>}
DescriptionOptions ==
    {<<>>} \cup {<< <<K_description, d>> >> :
                    d \in {JNull, JInt(5), JStr(D_tasty), JStr(D_error), JStr(D_no_recipe)}}
ArrayOptions(key, good) ==
    {<<>>} \cup {<< <<key, a>> >> : a \in {JStr(<<"x">>), JList(<<>>), JList(<<good>>)}}

\* every combination of absent / wrong type / empty / good for the four keys
ShapeValues ==
    {Obj(t \o d \o i \o s) :
        t \in TitleOptions, d \in DescriptionOptions,
        i \in ArrayOptions(K_ingredients, good_ingredient),
        s \in ArrayOptions(K_steps, good_step)}

\* every ingredients array up to MaxIngredients, with and without steps,
\* title and description
IngredientValues ==
    {Obj(d \o << <<K_ingredients, JList(i)>>, <<K_steps, JList(s)>> >>) :
        d \in {<<>>,
               << <<K_title, JStr(<<"T">>)>> >>,
               << <<K_title, JStr(<<"T">>)>>, <<K_description, JStr(D_tasty)>> >>},
        i \in SeqsFromTo(IngredientChoices, 1, MaxIngredients) \cup {<<empty_qty_ingredient>>},
        s \in {<<>>, <<good_step>>}}

\* every steps array up to MaxSteps, after a good and after a bad ingredient
StepValues ==
    {Obj(<< <<K_title, JInt(7)>>, <<K_ingredients, JList(<<i>>)>>, <<K_steps, JList(s)>> >>) :
        i \in {good_ingredient, JInt(5)},
        s \in SeqsFromTo(StepChoices, 1, MaxSteps)}

\* outputs that match the schema: every order of two ingredients and of two
\* steps, with and without a description
SchemaValues ==
    {Obj(<< <<K_title, JStr(<<"T">>)>> >> \o d
         \o << <<K_ingredients, JList(i)>>, <<K_steps, JList(s)>> >>) :
        d \in {<<>>, << <<K_description, JStr(D_tasty)>> >>},
        i \in SeqsFromTo({good_ingredient, escaped_ingredient}, 1, MaxIngredients),
        s \in SeqsFromTo({good_step, later_step}, 1, MaxSteps)}

\* values that are no JSON object
OtherValues ==
    {JInt(5), JNull, JBool(TRUE), JStr(<<"x">>), JStr(K_title), JList(<<>>),
     JList(<<JStr(K_title)>>), JList(<<JStr(K_title), JStr(K_ingredients)>>)}

ModelValues ==
    ShapeValues \cup IngredientValues \cup StepValues \cup SchemaValues \cup OtherValues

valid_recipe ==
    Obj(<< <<K_title, JStr(<<"T">>)>>, <<K_description, JStr(D_tasty)>>,
           <<K_ingredients, JList(<<good_ingredient>>)>>, <<K_steps, JList(<<good_step>>)>> >>)
no_recipe ==
    Obj(<< <<K_title, JStr(<<>>)>>, <<K_description, JStr(D_no_recipe)>>,
           <<K_ingredients, JList(<<>>)>>, <<K_steps, JList(<<>>)>> >>)

S_prose == <<"S", "u", "r", "e", "!">>
S_junk == <<"{", "x", "}">>
\* an object whose only member holds a fence and blanks inside a string
S_fence_inside ==
    <<"{", "\"", "t", "\"", ":", " ", "\"", " ">> \o FENCE \o <<" ", "\"", "}">>

\* payloads: two JSON objects, an object cut short, braces around no JSON,
\* prose, a bare number, the empty text, an object with a fence inside
Payloads ==
    {json_dumps(valid_recipe), json_dumps(no_recipe),
     SubSeq(json_dumps(valid_recipe), 1, Len(json_dumps(valid_recipe)) - 1),
     S_junk, S_prose, <<"5">>, <<>>, S_fence_inside}

\* the whitespace a response may carry around its fences
Paddings == {<<>>, <<" ", "\n">>, <<"\n", "\t", " ">>}

\* a fence line with the json tag, the payload, a closing fence line,
\* with whitespace around
Fenced(pre, p, post) == pre \o FENCE_JSON \o <<"\n">> \o p \o <<"\n">> \o FENCE \o post

\* wrappings: bare, padded, fenced with and without the tag, a fence on one
\* side only, fenced twice, inside prose, fenced inside prose
Wrappings(p) ==
    {p,
     <<" ", "\n">> \o p \o <<"\n">>,
     FENCE_JSON \o <<"\n">> \o p \o <<"\n">> \o FENCE,
     Fenced(<<" ", "\n">>, p, <<"\n", "\t", " ">>),
     FENCE \o p \o FENCE \o <<"\n">>,
     FENCE_JSON \o p,
     p \o FENCE,
     FENCE \o FENCE_JSON \o p \o FENCE \o FENCE,
     FENCE \o <<"\n">> \o FENCE \o p \o FENCE \o <<" ">> \o FENCE,
     S_prose \o <<" ">> \o p \o <<" ">> \o S_prose,
     S_prose \o <<"\n">> \o FENCE_JSON \o <<"\n">> \o p \o <<"\n">> \o FENCE}

WrappedTexts == UNION {Wrappings(p) : p \in Payloads}

\* the texts the first extract call may return
ModelTexts == {json_dumps(x) : x \in ModelValues} \cup WrappedTexts

\* the texts the repair call may return
RepairTexts == WrappedTexts

\* the texts the chat call may return
ChatTexts == {<<>>, <<"o", "k">>, <<" ", "o", "k", "\n">>}

(***************************************************************************)
(* Requests.                                                               *)
(***************************************************************************)
\* the configured shared secret (line 24; startup fails when it is unset)
SERVICE_TOKEN == "secret"

\* x_service_token: the header absent (None), empty, wrong, right
Headers == {"None", "", "wrong", SERVICE_TOKEN}

ChatStep(text, index) == [text |-> text, index |-> index]
ChatStepChoices == {ChatStep(<<"a">>, JNull), ChatStep(<<"b">>, JInt(5))}

\* the part of a ChatRequest the handler branches on (lines 81, 83)
ChatRequest(steps, current_step_index) ==
    [steps |-> steps, current_step_index |-> current_step_index]
NoChatRequest == ChatRequest(<<>>, JNull)
ChatRequests ==
    {ChatRequest(steps, c) :
        steps \in SeqsFromTo(ChatStepChoices, 0, MaxChatSteps),
        c \in {JNull} \cup {JInt(n) : n \in (0 - 1)..(MaxChatSteps + 1)}}

S_current_step == <<"\n", "\n", "C", "u", "r", "r", "e", "n", "t", " ", "s", "t", "e", "p", ":", " ">>

\* mutant: line 331 without its lower bound, so that a negative index
\* counts from the end of the list
current_step_info_no_lower_bound(request) ==
    IF request.current_step_index.t # "None"
       /\ request.current_step_index.n < Len(request.steps)
       /\ request.steps # <<>>
    THEN LET pos == IF request.current_step_index.n >= 0
                    THEN request.current_step_index.n + 1
                    ELSE Max({1, Len(request.steps) + request.current_step_index.n + 1})
             current_step == request.steps[pos]
             step_num == IF current_step.index.t # "None" THEN current_step.index.n
                         ELSE request.current_step_index.n + 1
         IN  S_current_step \o IntToStr(step_num) \o <<".", " ">> \o current_step.text
    ELSE <<>>

\* lines 330-334: the "Current step" part of the chat prompt
current_step_info(request) ==
    IF request.current_step_index.t # "None"
       /\ 0 <= request.current_step_index.n
       /\ request.current_step_index.n < Len(request.steps)
    THEN LET current_step == request.steps[request.current_step_index.n + 1]
             step_num == IF current_step.index.t # "None" THEN current_step.index.n
                         ELSE request.current_step_index.n + 1
         IN  S_current_step \o IntToStr(step_num) \o <<".", " ">> \o current_step.text
    ELSE <<>>

(***************************************************************************)
(* State.                                                                  *)
(***************************************************************************)
Requests == {"r1", "r2"}

VARIABLES
    pydantic,         \* major version of the installed pydantic: 1 or 2
    pc,               \* where each request is in its handler
    endpoint,         \* "/extract", "/chat", "/health" or "" before arrival
    x_service_token,  \* the header of each request
    chat_request,     \* the body of each chat request
    calls,            \* the temperatures of the model calls each request issued, in order
    returned,         \* how many of them came back (with text or an exception)
    content,          \* extract: text of the first model response; chat: the trimmed answer
    repair_response,  \* extract: text of the repair response
    model_failed,     \* which model call raised: "", "initial", "repair", "chat"
    recipe_data,      \* extract: the parsed value
    parsed_by,        \* extract: "", "strict", "brace" or "repair"
    prompt,           \* chat: the current-step part of the prompt sent
    response          \* the HTTP response of each request

vars == <<pydantic, pc, endpoint, x_service_token, chat_request, calls, returned,
          content, repair_response, model_failed, recipe_data, parsed_by, prompt, response>>

Init ==
    /\ pydantic \in {1, 2}
    /\ pc = [r \in Requests |-> "idle"]
    /\ endpoint = [r \in Requests |-> ""]
    /\ x_service_token = [r \in Requests |-> "None"]
    /\ chat_request = [r \in Requests |-> NoChatRequest]
    /\ calls = [r \in Requests |-> <<>>]
    /\ returned = [r \in Requests |-> 0]
    /\ content = [r \in Requests |-> <<>>]
    /\ repair_response = [r \in Requests |-> <<>>]
    /\ model_failed = [r \in Requests |-> ""]
    /\ recipe_data = [r \in Requests |-> JNull]
    /\ parsed_by = [r \in Requests |-> ""]
    /\ prompt = [r \in Requests |-> <<>>]
    /\ response = [r \in Requests |-> NoResponse]

\* the handler of r ends with HTTP response resp
Respond(r, resp) ==
    /\ pc' = [pc EXCEPT ![r] = "done"]
    /\ response' = [response EXCEPT ![r] = resp]

(***************************************************************************)
(* Arrival and authentication.                                             *)
(***************************************************************************)
\* a request arrives while the service is idle
Arrive(r) ==
    /\ \A q \in Requests : pc[q] = "idle"
    /\ \E e \in {"/extract", "/chat", "/health"}, h \in Headers :
          /\ endpoint' = [endpoint EXCEPT ![r] = e]
          /\ x_service_token' = [x_service_token EXCEPT ![r] = h]
          /\ chat_request' \in
                IF e = "/chat" THEN {[chat_request EXCEPT ![r] = c] : c \in ChatRequests}
                ELSE {chat_request}
    /\ pc' = [pc EXCEPT ![r] = "dispatch"]
    /\ UNCHANGED <<pydantic, calls, returned, content, repair_response, model_failed,
                   recipe_data, parsed_by, prompt, response>>

\* mutant: the comparison of line 40 is left out, any non-empty header passes
verify_service_token_any_header(r) ==
    /\ pc[r] = "dispatch"
    /\ endpoint[r] \in {"/extract", "/chat"}
    /\ IF x_service_token[r] \in {"None", ""}
       THEN Respond(r, Resp(401, "Service token header missing", "", 0, <<>>, NoRecipe))
       ELSE /\ pc' = [pc EXCEPT ![r] = IF endpoint[r] = "/extract" THEN "extract" ELSE "chat"]
            /\ UNCHANGED response
    /\ UNCHANGED <<pydantic, endpoint, x_service_token, chat_request, calls, returned,
                   content, repair_response, model_failed, recipe_data, parsed_by, prompt>>

\* lines 36-42, the dependency of /extract and /chat (lines 144, 313)
verify_service_token(r) ==
    /\ pc[r] = "dispatch"
    /\ endpoint[r] \in {"/extract", "/chat"}
    /\ IF x_service_token[r] \in {"None", ""}
       THEN Respond(r, Resp(401, "Service token header missing", "", 0, <<>>, NoRecipe))
       ELSE IF x_service_token[r] # SERVICE_TOKEN
       THEN Respond(r, Resp(401, "Invalid service token", "", 0, <<>>, NoRecipe))
       ELSE /\ pc' = [pc EXCEPT ![r] = IF endpoint[r] = "/extract" THEN "extract" ELSE "chat"]
            /\ UNCHANGED response
    /\ UNCHANGED <<pydantic, endpoint, x_service_token, chat_request, calls, returned,
                   content, repair_response, model_failed, recipe_data, parsed_by, prompt>>

\* lines 139-141
health(r) ==
    /\ pc[r] = "dispatch"
    /\ endpoint[r] = "/health"
    /\ Respond(r, Resp(200, "healthy", "", 0, <<>>, NoRecipe))
    /\ UNCHANGED <<pydantic, endpoint, x_service_token, chat_request, calls, returned,
                   content, repair_response, model_failed, recipe_data, parsed_by, prompt>>

(***************************************************************************)
(* The model collaborator.                                                 *)
(***************************************************************************)
\* mutant: the call is retried once, whatever came back
generate_content_retried(issued, temperature) == Append(Append(issued, temperature), temperature)

\* model.generate_content(prompt, temperature): one call is issued
generate_content(issued, temperature) == Append(issued, temperature)

(***************************************************************************)
(* POST /extract: main.py lines 144-294.                                   *)
(***************************************************************************)
\* lines 166-172: the initial call is issued
extract_recipe(r) ==
    /\ pc[r] = "extract"
    /\ calls' = [calls EXCEPT ![r] = generate_content(@, TEMP_EXTRACT)]
    /\ pc' = [pc EXCEPT ![r] = "await_initial"]
    /\ UNCHANGED <<pydantic, endpoint, x_service_token, chat_request, returned, content,
                   repair_response, model_failed, recipe_data, parsed_by, prompt, response>>

\* lines 173-175: the initial call raises; ValueError("Gemini API error: ...")
\* reaches the handlers of lines 277-294
extract_initial_raises(r) ==
    /\ pc[r] = "await_initial"
    /\ returned' = [returned EXCEPT ![r] = @ + 1]
    /\ model_failed' = [model_failed EXCEPT ![r] = "initial"]
    /\ Respond(r, extract_except(Exc("ValueError", "Gemini API error", 0)))
    /\ UNCHANGED <<pydantic, endpoint, x_service_token, chat_request, calls, content,
                   repair_response, recipe_data, parsed_by, prompt>>

\* line 173: the initial call returns text
extract_initial_returns(r) ==
    /\ pc[r] = "await_initial"
    /\ returned' = [returned EXCEPT ![r] = @ + 1]
    /\ \E text \in ModelTexts : content' = [content EXCEPT ![r] = text]
    /\ pc' = [pc EXCEPT ![r] = "parse"]
    /\ UNCHANGED <<pydantic, endpoint, x_service_token, chat_request, calls,
                   repair_response, model_failed, recipe_data, parsed_by, prompt, response>>

\* mutant: no brace extraction, a failed strict parse goes to the repair call
Cascade_no_brace(text) ==
    LET strict == json_loads(cleaned_content(text))
    IN  IF strict.ok THEN [path |-> "strict", v |-> strict.v]
        ELSE IF json_match(text) = <<>> THEN [path |-> "nomatch", v |-> JNull]
        ELSE [path |-> "repair", v |-> JNull]

\* lines 178-197 and 210-211, the cascade up to the repair call: [path, v];
\* path is "strict" or "brace" (v is the parsed value), "repair" (both
\* parses failed) or "nomatch" (strict parse failed, the text holds no span)
Cascade(text) ==
    LET strict == json_loads(cleaned_content(text))
        span == json_match(text)
        brace == json_loads(span)
    IN  IF strict.ok THEN [path |-> "strict", v |-> strict.v]
        ELSE IF span = <<>> THEN [path |-> "nomatch", v |-> JNull]
        ELSE IF brace.ok THEN [path |-> "brace", v |-> brace.v]
        ELSE [path |-> "repair", v |-> JNull]

\* mutant: the repair response goes through the sanitizer of lines 180-187
RepairParse_sanitized(text) == json_loads(cleaned_content(text))

\* line 207: json.loads(repair_response.text.strip())
RepairParse(text) == json_loads(strip(text))

\* lines 178-206 and 210-211: parse the first response; on "repair" the
\* repair call is issued
extract_parse(r) ==
    /\ pc[r] = "parse"
    /\ LET c == Cascade(content[r])
       IN  CASE c.path \in {"strict", "brace"} ->
                   /\ recipe_data' = [recipe_data EXCEPT ![r] = c.v]
                   /\ parsed_by' = [parsed_by EXCEPT ![r] = c.path]
                   /\ pc' = [pc EXCEPT ![r] = "validate"]
                   /\ UNCHANGED <<calls, response>>
             [] c.path = "repair" ->
                   /\ calls' = [calls EXCEPT ![r] = generate_content(@, TEMP_REPAIR)]
                   /\ pc' = [pc EXCEPT ![r] = "await_repair"]
                   /\ UNCHANGED <<recipe_data, parsed_by, response>>
             [] c.path = "nomatch" ->
                   /\ Respond(r, extract_except(Exc("ValueError", "Invalid JSON response", 0)))
                   /\ UNCHANGED <<recipe_data, parsed_by, calls>>
    /\ UNCHANGED <<pydantic, endpoint, x_service_token, chat_request, returned, content,
                   repair_response, model_failed, prompt>>

\* mutant: line 208 catches json.JSONDecodeError only, so the exception of
\* the collaborator reaches the last handler (lines 284-294)
extract_repair_raises_uncaught(r) ==
    /\ pc[r] = "await_repair"
    /\ returned' = [returned EXCEPT ![r] = @ + 1]
    /\ model_failed' = [model_failed EXCEPT ![r] = "repair"]
    /\ \E api \in BOOLEAN :
          Respond(r, extract_except([Exc("RuntimeError", "", 0) EXCEPT !.api = api]))
    /\ UNCHANGED <<pydantic, endpoint, x_service_token, chat_request, calls, content,
                   repair_response, recipe_data, parsed_by, prompt>>

\* lines 201-209: the repair call raises
extract_repair_raises(r) ==
    /\ pc[r] = "await_repair"
    /\ returned' = [returned EXCEPT ![r] = @ + 1]
    /\ model_failed' = [model_failed EXCEPT ![r] = "repair"]
    /\ Respond(r, extract_except(Exc("ValueError", "Invalid JSON response after repair attempt", 0)))
    /\ UNCHANGED <<pydantic, endpoint, x_service_token, chat_request, calls, content,
                   repair_response, recipe_data, parsed_by, prompt>>

\* lines 207-209: the repair call returns text, which is parsed
extract_repair_returns(r) ==
    /\ pc[r] = "await_repair"
    /\ returned' = [returned EXCEPT ![r] = @ + 1]
    /\ \E text \in RepairTexts :
          /\ repair_response' = [repair_response EXCEPT ![r] = text]
          /\ LET p == RepairParse(text)
             IN  IF p.ok
                 THEN /\ recipe_data' = [recipe_data EXCEPT ![r] = p.v]
                      /\ parsed_by' = [parsed_by EXCEPT ![r] = "repair"]
                      /\ pc' = [pc EXCEPT ![r] = "validate"]
                      /\ UNCHANGED response
                 ELSE /\ Respond(r, extract_except(
                              Exc("ValueError", "Invalid JSON response after repair attempt", 0)))
                      /\ UNCHANGED <<recipe_data, parsed_by>>
    /\ UNCHANGED <<pydantic, endpoint, x_service_token, chat_request, calls, content,
                   model_failed, prompt>>

\* mutant: recipe_data is one module-level name that the handlers share, so
\* a handler may validate the value another one parsed
extract_validate_shared(r) ==
    /\ pc[r] = "validate"
    /\ \E q \in Requests :
          /\ parsed_by[q] # ""
          /\ LET result == Validate(recipe_data[q], pydantic)
             IN  IF result.exc # NoExc
                 THEN Respond(r, extract_except(result.exc))
                 ELSE Respond(r, Resp(200, "", "", 0, <<>>, result.recipe))
    /\ UNCHANGED <<pydantic, endpoint, x_service_token, chat_request, calls, returned,
                   content, repair_response, model_failed, recipe_data, parsed_by, prompt>>

\* lines 213-294: validation, then the response or the handlers
extract_validate(r) ==
    /\ pc[r] = "validate"
    /\ LET result == Validate(recipe_data[r], pydantic)
       IN  IF result.exc # NoExc
           THEN Respond(r, extract_except(result.exc))
           ELSE Respond(r, Resp(200, "", "", 0, <<>>, result.recipe))
    /\ UNCHANGED <<pydantic, endpoint, x_service_token, chat_request, calls, returned,
                   content, repair_response, model_failed, recipe_data, parsed_by, prompt>>

(***************************************************************************)
(* POST /chat: main.py lines 313-383.                                      *)
(***************************************************************************)
\* lines 318-359: the prompt is built and the call is issued
chat(r) ==
    /\ pc[r] = "chat"
    /\ prompt' = [prompt EXCEPT ![r] = current_step_info(chat_request[r])]
    /\ calls' = [calls EXCEPT ![r] = generate_content(@, TEMP_CHAT)]
    /\ pc' = [pc EXCEPT ![r] = "await_chat"]
    /\ UNCHANGED <<pydantic, endpoint, x_service_token, chat_request, returned, content,
                   repair_response, model_failed, recipe_data, parsed_by, response>>

\* lines 361-370: the call raises; ValueError("Gemini API error: ...")
chat_raises(r) ==
    /\ pc[r] = "await_chat"
    /\ returned' = [returned EXCEPT ![r] = @ + 1]
    /\ model_failed' = [model_failed EXCEPT ![r] = "chat"]
    /\ Respond(r, chat_except(Exc("ValueError", "Gemini API error", 0)))
    /\ UNCHANGED <<pydantic, endpoint, x_service_token, chat_request, calls, content,
                   repair_response, recipe_data, parsed_by, prompt>>

\* lines 360-364: the call returns text; content = response.text.strip()
chat_returns(r) ==
    /\ pc[r] = "await_chat"
    /\ returned' = [returned EXCEPT ![r] = @ + 1]
    /\ \E text \in ChatTexts :
          /\ content' = [content EXCEPT ![r] = strip(text)]
          /\ Respond(r, Resp(200, "", "", 0, strip(text), NoRecipe))
    /\ UNCHANGED <<pydantic, endpoint, x_service_token, chat_request, calls,
                   repair_response, model_failed, recipe_data, parsed_by, prompt>>

(***************************************************************************)
(* The service with one request, r1, from its arrival to its response.     *)
(***************************************************************************)
Next ==
    \E r \in {"r1"} :
        \/ Arrive(r)
        \/ verify_service_token(r)
        \/ health(r)
        \/ extract_recipe(r)
        \/ extract_initial_raises(r)
        \/ extract_initial_returns(r)
        \/ extract_parse(r)
        \/ extract_repair_raises(r)
        \/ extract_repair_returns(r)
        \/ extract_validate(r)
        \/ chat(r)
        \/ chat_raises(r)
        \/ chat_returns(r)

Spec == Init /\ [][Next]_vars

(***************************************************************************)
(* The service under concurrent requests: a request may arrive and every   *)
(* handler may take its next step whatever the other requests are doing.   *)
(* The inputs are one text for each way through the cascade and each kind  *)
(* of validation outcome.                                                  *)
(***************************************************************************)
ConcurrentTexts ==
    {json_dumps(valid_recipe),
     Fenced(<<>>, json_dumps(no_recipe), <<>>),
     S_prose \o <<" ">> \o json_dumps(valid_recipe) \o <<" ">> \o S_prose,
     S_prose,
     S_junk,
     SubSeq(json_dumps(valid_recipe), 1, Len(json_dumps(valid_recipe)) - 1),
     <<"5">>,
     json_dumps(Obj(<< <<K_title, JStr(<<"T">>)>>,
                       <<K_ingredients, JList(<<blank_qty_ingredient>>)>>,
                       <<K_steps, JList(<<good_step>>)>> >>))}
ConcurrentRepairTexts == {json_dumps(valid_recipe), json_dumps(no_recipe), S_prose}
ConcurrentChatRequests ==
    {ChatRequest(<<ChatStep(<<"a">>, JNull)>>, JInt(0)), ChatRequest(<<>>, JInt(1))}

\* a request arrives, whatever the other requests are doing
ArriveConcurrent(r) ==
    /\ pc[r] = "idle"
    /\ \E e \in {"/extract", "/chat", "/health"}, h \in {"wrong", SERVICE_TOKEN} :
          /\ endpoint' = [endpoint EXCEPT ![r] = e]
          /\ x_service_token' = [x_service_token EXCEPT ![r] = h]
          /\ chat_request' \in
                IF e = "/chat"
                THEN {[chat_request EXCEPT ![r] = c] : c \in ConcurrentChatRequests}
                ELSE {chat_request}
    /\ pc' = [pc EXCEPT ![r] = "dispatch"]
    /\ UNCHANGED <<pydantic, calls, returned, content, repair_response, model_failed,
                   recipe_data, parsed_by, prompt, response>>

\* line 173 with the first response among ConcurrentTexts
extract_initial_returns_concurrent(r) ==
    /\ extract_initial_returns(r)
    /\ content'[r] \in ConcurrentTexts

\* lines 207-209 with the repair response among ConcurrentRepairTexts
extract_repair_returns_concurrent(r) ==
    /\ extract_repair_returns(r)
    /\ repair_response'[r] \in ConcurrentRepairTexts

NextConcurrent ==
    \E r \in Requests :
        \/ ArriveConcurrent(r)
        \/ verify_service_token(r)
        \/ health(r)
        \/ extract_recipe(r)
        \/ extract_initial_raises(r)
        \/ extract_initial_returns_concurrent(r)
        \/ extract_parse(r)
        \/ extract_repair_raises(r)
        \/ extract_repair_returns_concurrent(r)
        \/ extract_validate(r)
        \/ chat(r)
        \/ chat_raises(r)
        \/ chat_returns(r)

SpecConcurrent == Init /\ [][NextConcurrent]_vars

(***************************************************************************)
(* The service fed its own answer: a first extract request runs as above,  *)
(* and when it has returned a Recipe a second one arrives whose model      *)
(* response is the body of the first answer.                               *)
(***************************************************************************)
\* a second authorized /extract request arrives after q returned a Recipe
Resubmit(r, q) ==
    /\ pc[r] = "idle"
    /\ pc[q] = "done"
    /\ endpoint[q] = "/extract"
    /\ response[q].status = 200
    /\ endpoint' = [endpoint EXCEPT ![r] = "/extract"]
    /\ x_service_token' = [x_service_token EXCEPT ![r] = SERVICE_TOKEN]
    /\ pc' = [pc EXCEPT ![r] = "dispatch"]
    /\ UNCHANGED <<pydantic, chat_request, calls, returned, content, repair_response,
                   model_failed, recipe_data, parsed_by, prompt, response>>

\* line 173: the initial call of r returns the serialized Recipe of q
extract_initial_returns_serialized(r, q) ==
    /\ pc[r] = "await_initial"
    /\ returned' = [returned EXCEPT ![r] = @ + 1]
    /\ content' = [content EXCEPT ![r] = Serialize(response[q].recipe)]
    /\ pc' = [pc EXCEPT ![r] = "parse"]
    /\ UNCHANGED <<pydantic, endpoint, x_service_token, chat_request, calls,
                   repair_response, model_failed, recipe_data, parsed_by, prompt, response>>

NextRoundTrip ==
    \/ Arrive("r1")
    \/ verify_service_token("r1")
    \/ health("r1")
    \/ extract_recipe("r1")
    \/ extract_initial_raises("r1")
    \/ extract_initial_returns("r1")
    \/ extract_parse("r1")
    \/ extract_repair_raises("r1")
    \/ extract_repair_returns("r1")
    \/ extract_validate("r1")
    \/ chat("r1")
    \/ chat_raises("r1")
    \/ chat_returns("r1")
    \/ Resubmit("r2", "r1")
    \/ verify_service_token("r2")
    \/ extract_recipe("r2")
    \/ extract_initial_returns_serialized("r2", "r1")
    \/ extract_parse("r2")
    \/ extract_repair_raises("r2")
    \/ extract_repair_returns("r2")
    \/ extract_validate("r2")

SpecRoundTrip == Init /\ [][NextRoundTrip]_vars

(***************************************************************************)
(* Properties.                                                             *)
(***************************************************************************)
\* the first response of extract request r has arrived and the cascade of
\* lines 178-211 has run on it
ParseActed(r) ==
    /\ endpoint[r] = "/extract"
    /\ returned[r] >= 1
    /\ model_failed[r] # "initial"
    /\ pc[r] \in {"await_repair", "validate", "done"}

\* the validation block of lines 213-275 has run on the parsed value of r
ValidateActed(r) ==
    /\ endpoint[r] = "/extract"
    /\ parsed_by[r] # ""
    /\ pc[r] = "done"

StrictParses(text) == json_loads(cleaned_content(text)).ok
BraceParses(text) == json_match(text) # <<>> /\ json_loads(json_match(text)).ok

RepairFailedResponse ==
    Resp(422, "Invalid response format", "Invalid JSON response after repair attempt",
         0, <<>>, NoRecipe)

\* C1: whenever the first response parses neither strictly nor by brace
\* extraction (a response without any brace span included), exactly one
\* repair call is issued, at temperature 0.1, and if the repaired response
\* does not parse the request ends as 422 invalid JSON after repair with no
\* further call.
C1_RepairAfterEveryUnparseable ==
    \A r \in Requests :
        (ParseActed(r) /\ ~StrictParses(content[r]) /\ ~BraceParses(content[r])) =>
            /\ calls[r] = <<TEMP_EXTRACT, TEMP_REPAIR>>
            /\ (pc[r] = "done" /\ parsed_by[r] = "") => response[r] = RepairFailedResponse

\* C2: an extract request issues at most two model calls, the initial one at
\* 0.3 and then at most one repair at 0.1, the repair only after the initial
\* call has returned text; a chat request issues one call, at 0.7, and has
\* issued exactly one when its handler ends.
C2_AtMostTwoCalls ==
    \A r \in Requests :
        /\ Len(calls[r]) <= 2
        /\ endpoint[r] = "/extract" =>
              /\ calls[r] \in {<<>>, <<TEMP_EXTRACT>>, <<TEMP_EXTRACT, TEMP_REPAIR>>}
              /\ Len(calls[r]) = 2 => (returned[r] >= 1 /\ model_failed[r] # "initial")
        /\ endpoint[r] = "/chat" =>
              /\ calls[r] \in {<<>>, <<TEMP_CHAT>>}
              /\ (pc[r] = "done" /\ response[r].status # 401) => calls[r] = <<TEMP_CHAT>>
        /\ endpoint[r] \in {"", "/health"} => calls[r] = <<>>
        /\ returned[r] <= Len(calls[r])

\* C2 witness: an extract request that ended after its repair call, and a
\* repair call in flight after the initial call has returned
C2_Witness ==
    \E r \in Requests :
        /\ endpoint[r] = "/extract"
        /\ pc[r] = "done"
        /\ calls[r] = <<TEMP_EXTRACT, TEMP_REPAIR>>
        /\ returned[r] = 2

\* the value the cascade must hand to validation when one of the two parses
\* of the first response succeeds
FirstParse(text) ==
    LET strict == json_loads(cleaned_content(text))
    IN  IF strict.ok THEN strict.v ELSE json_loads(json_match(text)).v

\* the response of lines 213-294 for a parsed value
ValidatedResponse(value) ==
    LET result == Validate(value, pydantic)
    IN  IF result.exc # NoExc THEN extract_except(result.exc)
        ELSE Resp(200, "", "", 0, <<>>, result.recipe)

\* C3: when the strict parse of the sanitized first response succeeds, or it
\* fails and the span from the first opening to the last closing brace of the
\* raw response parses, that value goes to schema validation, no repair call
\* is issued and the request makes exactly one model call.
C3_ShortCircuit ==
    \A r \in Requests :
        (ParseActed(r) /\ (StrictParses(content[r]) \/ BraceParses(content[r]))) =>
            /\ calls[r] = <<TEMP_EXTRACT>>
            /\ returned[r] = 1
            /\ recipe_data[r] = FirstParse(content[r])
            /\ pc[r] # "await_repair"
            /\ pc[r] = "done" => response[r] = ValidatedResponse(recipe_data[r])

\* C3 witness: a JSON object with prose before and after it ended as a Recipe
C3_Witness ==
    \E r \in Requests :
        /\ ParseActed(r)
        /\ ~StrictParses(content[r])
        /\ BraceParses(content[r])
        /\ startswith(content[r], S_prose)
        /\ endswith(content[r], S_prose)
        /\ pc[r] = "done"
        /\ response[r].status = 200

\* C4: every Recipe returned with status 200 has at least one ingredient and
\* at least one step.
C4_ReturnedRecipeFullyValid ==
    \A r \in Requests :
        (endpoint[r] = "/extract" /\ pc[r] = "done" /\ response[r].status = 200) =>
            /\ response[r].recipe.ingredients # <<>>
            /\ response[r].recipe.steps # <<>>

\* C5: a failure of the model collaborator on the initial extract call or on
\* the chat call is answered with 503.
C5_ModelFailureIs503 ==
    \A r \in Requests :
        (pc[r] = "done" /\ model_failed[r] \in {"initial", "chat"}) =>
            response[r].status = 503

\* C6: when the repair call raises, the request ends with the same 422
\* "invalid JSON after repair" response as when the repaired text does not
\* parse, after exactly the two calls, and returns no Recipe.
C6_RepairFailureIsInvalidJson ==
    \A r \in Requests :
        /\ model_failed[r] = "repair" =>
              /\ pc[r] = "done"
              /\ response[r] = RepairFailedResponse
              /\ calls[r] = <<TEMP_EXTRACT, TEMP_REPAIR>>
        /\ (endpoint[r] = "/extract" /\ pc[r] = "done" /\ returned[r] = 2
            /\ model_failed[r] = "" /\ ~json_loads(strip(repair_response[r])).ok) =>
              response[r] = RepairFailedResponse

\* C6 witness: a repair call has raised
C6_Witness ==
    \E r \in Requests : model_failed[r] = "repair" /\ returned[r] = 2

\* the parsed value has title, ingredients and steps, both arrays are lists,
\* one of them is empty, and the description (the default when the key is
\* absent) is a string containing "error" or "no recipe" in any case
Declines(value) ==
    /\ value.t = "dict"
    /\ HasKey(value, K_title)
    /\ HasKey(value, K_ingredients) /\ DictGet(value, K_ingredients).t = "list"
    /\ HasKey(value, K_steps) /\ DictGet(value, K_steps).t = "list"
    /\ DictGet(value, K_ingredients).v = <<>> \/ DictGet(value, K_steps).v = <<>>
    /\ LET d == IF HasKey(value, K_description) THEN DictGet(value, K_description)
                ELSE JStr(DEFAULT_DESC)
       IN  /\ d.t = "str"
           /\ contains(lower(d.s), S_error) \/ contains(lower(d.s), S_no_recipe)

DescriptionOrDefault(value) ==
    IF HasKey(value, K_description) THEN DictGet(value, K_description).s ELSE DEFAULT_DESC

\* C7: a parsed output with an empty ingredients or steps array and a
\* declining description ends as 422 "Recipe extraction failed: <description>",
\* which is not the "Invalid response format" of the structural errors.
C7_ExtractionDeclined ==
    \A r \in Requests :
        (ValidateActed(r) /\ Declines(recipe_data[r])) =>
            /\ response[r] = Resp(422, "Recipe extraction failed", "", 0,
                                  DescriptionOrDefault(recipe_data[r]), NoRecipe)
            /\ response[r].detail # "Invalid response format"

\* C7 witness: declined on the default description, with an empty steps
\* array after a non-empty ingredients array
C7_Witness ==
    \E r \in Requests :
        /\ ValidateActed(r)
        /\ Declines(recipe_data[r])
        /\ ~HasKey(recipe_data[r], K_description)
        /\ DictGet(recipe_data[r], K_ingredients).v # <<>>
        /\ response[r].detail = "Recipe extraction failed"

\* the schema violations C8 lists
IsListField(value, key) == HasKey(value, key) /\ DictGet(value, key).t = "list"
ElementsOf(value, key) ==
    IF value.t = "dict" /\ IsListField(value, key)
    THEN {DictGet(value, key).v[i] : i \in 1..Len(DictGet(value, key).v)}
    ELSE {}
ViolatesSchema(value) ==
    \/ value.t # "dict"
    \/ ~HasKey(value, K_title) \/ ~IsListField(value, K_ingredients) \/ ~IsListField(value, K_steps)
    \/ /\ DictGet(value, K_ingredients).v = <<>> \/ DictGet(value, K_steps).v = <<>>
       /\ HasKey(value, K_description)
       /\ DictGet(value, K_description).t # "str"
    \/ \E x \in ElementsOf(value, K_ingredients) \cup ElementsOf(value, K_steps) : x.t # "dict"
    \/ \E x \in ElementsOf(value, K_ingredients) :
          ~HasKey(x, K_qty) \/ ~HasKey(x, K_unit) \/ ~HasKey(x, K_item)
    \/ \E x \in ElementsOf(value, K_steps) :
          \/ ~HasKey(x, K_index) \/ ~HasKey(x, K_text) \/ ~HasKey(x, K_timestamp_sec)
          \/ PyInt(DictGet(x, K_index)).exc # ""
          \/ PyInt(DictGet(x, K_timestamp_sec)).exc # ""

\* C8: every parsed value that violates the schema is answered with 422.
C8_SchemaViolationIs422 ==
    \A r \in Requests :
        (ValidateActed(r) /\ ViolatesSchema(recipe_data[r])) => response[r].status = 422

\* the ingredient is an object whose qty, coerced to str, is empty or blank
BlankQty(ing) == ing.t = "dict" /\ HasKey(ing, K_qty) /\ strip(PyStr(DictGet(ing, K_qty))) = <<>>
WellFormedIngredient(ing) ==
    ing.t = "dict" /\ HasKey(ing, K_qty) /\ HasKey(ing, K_unit) /\ HasKey(ing, K_item)
\* the parsed value is an object with non-empty ingredients and steps arrays
\* and some ingredient of blank qty
HasBlankQty(value) ==
    /\ value.t = "dict"
    /\ IsListField(value, K_ingredients) /\ DictGet(value, K_ingredients).v # <<>>
    /\ IsListField(value, K_steps) /\ DictGet(value, K_steps).v # <<>>
    /\ \E x \in ElementsOf(value, K_ingredients) : BlankQty(x)
FirstBlankQty(value) ==
    Min({i \in 1..Len(DictGet(value, K_ingredients).v) : BlankQty(DictGet(value, K_ingredients).v[i])})

\* C9 as claimed: with non-empty arrays and an ingredient of blank qty, the
\* request ends as a 422 structural error naming the position of the first
\* such ingredient, and no Recipe is returned.
C9_NamesFirstBlankQty ==
    \A r \in Requests :
        (ValidateActed(r) /\ HasBlankQty(recipe_data[r])) =>
            /\ response[r].status = 422
            /\ response[r].detail = "Invalid response format"
            /\ response[r].recipe = NoRecipe
            /\ response[r].pos = FirstBlankQty(recipe_data[r])

\* C9 amended: with non-empty arrays and an ingredient of blank qty, the
\* request ends as a 422 structural error and no Recipe is returned; when
\* the title key is present the error names a position at or before the
\* first such ingredient, and names exactly that one, as "qty must not be
\* empty", when every ingredient before it is an object with qty, unit and
\* item and it has unit and item too; without a title key the error is the
\* missing title and names no position.
C9_BlankQtyRejected ==
    \A r \in Requests :
        (ValidateActed(r) /\ HasBlankQty(recipe_data[r])) =>
            LET list == DictGet(recipe_data[r], K_ingredients).v
                first == FirstBlankQty(recipe_data[r])
            IN  /\ response[r].status = 422
                /\ response[r].detail = "Invalid response format"
                /\ response[r].recipe = NoRecipe
                /\ HasKey(recipe_data[r], K_title) =>
                      /\ response[r].pos >= 1
                      /\ response[r].pos <= first
                      /\ (\A i \in 1..first : WellFormedIngredient(list[i])) =>
                            /\ response[r].pos = first
                            /\ response[r].msg = "Ingredient qty must not be empty"
                /\ ~HasKey(recipe_data[r], K_title) =>
                      /\ response[r].pos = 0
                      /\ response[r].msg = "Missing 'title' in response"

\* C9 witness: the second ingredient has a blank qty after a good first one,
\* and the error names position 2
C9_Witness ==
    \E r \in Requests :
        /\ ValidateActed(r)
        /\ HasBlankQty(recipe_data[r])
        /\ FirstBlankQty(recipe_data[r]) = 2
        /\ response[r].pos = 2
        /\ response[r].msg = "Ingredient qty must not be empty"

\* C10: the sanitizer is idempotent on every text the cascade sanitizes.
C10_SanitizerIdempotent ==
    \A r \in Requests :
        ParseActed(r) =>
            cleaned_content(cleaned_content(content[r])) = cleaned_content(content[r])

\* payloads without whitespace at either end and without a fence at the
\* start or the end
PlainPayloads ==
    {p \in Payloads :
        /\ strip(p) = p
        /\ ~startswith(p, FENCE)
        /\ ~endswith(p, FENCE)}

\* each such payload between a json fence line and a closing fence line,
\* under every padding before and after
FencedPayloads ==
    {[text |-> Fenced(pre, p, post), p |-> p] :
        p \in PlainPayloads, pre \in Paddings, post \in Paddings}

\* C11: for every payload without whitespace or a fence at its ends, the
\* sanitizer turns the text made of a json fence line, the payload and a
\* closing fence line, with any whitespace around, into exactly the payload;
\* a text that holds no fence is returned trimmed and otherwise unchanged.
C11_FencedPayloadExact ==
    \A r \in Requests :
        ParseActed(r) =>
            /\ \A f \in FencedPayloads :
                  content[r] = f.text =>
                      /\ cleaned_content(content[r]) = f.p
                      /\ parsed_by[r] = "strict" <=> json_loads(f.p).ok
                      /\ parsed_by[r] = "strict" => recipe_data[r] = json_loads(f.p).v
            /\ ~contains(content[r], FENCE) =>
                  cleaned_content(content[r]) = strip(content[r])

\* C11 witness: a fenced recipe with whitespace before and after the fences
\* was parsed strictly and returned
C11_Witness ==
    \E r \in Requests :
        /\ ParseActed(r)
        /\ content[r] = Fenced(<<" ", "\n">>, json_dumps(valid_recipe), <<"\n", "\t", " ">>)
        /\ parsed_by[r] = "strict"
        /\ pc[r] = "done"
        /\ response[r].status = 200

\* C12: when the serialized form of a Recipe that an extract request
\* returned is the first model response of another extract request, that
\* request makes one model call, parses it strictly, issues no repair call
\* and returns a Recipe equal to the first one.
C12_RoundTrip ==
    /\ pc["r2"] \in {"validate", "done"} =>
          /\ content["r2"] = Serialize(response["r1"].recipe)
          /\ parsed_by["r2"] = "strict"
    /\ pc["r2"] # "await_repair"
    /\ Len(calls["r2"]) <= 1
    /\ pc["r2"] = "done" =>
          /\ response["r2"].status = 200
          /\ response["r2"].recipe = response["r1"].recipe
          /\ calls["r2"] = <<TEMP_EXTRACT>>

\* C12 witness: a Recipe with an ingredient that holds a newline, a quote
\* and a backslash came back equal from a text other than the first one
C12_Witness ==
    /\ pc["r2"] = "done"
    /\ response["r2"].status = 200
    /\ content["r2"] # content["r1"]
    /\ recipe_data["r2"] # recipe_data["r1"]
    /\ response["r2"].recipe.steps # <<>>
    /\ \E i \in 1..Len(response["r2"].recipe.ingredients) :
          response["r2"].recipe.ingredients[i] = Ingredient(<<"1", "\n">>, <<"\"">>, <<"\\">>)

\* the parsed value matches the schema: a string title, a description that
\* is absent, null or a string, a non-empty ingredients array of objects
\* with string qty, unit and item and a non-blank qty, a non-empty steps
\* array of objects with integer index and timestamp_sec and a string text
MatchesSchema(value) ==
    /\ value.t = "dict"
    /\ HasKey(value, K_title) /\ DictGet(value, K_title).t = "str"
    /\ HasKey(value, K_description) => DictGet(value, K_description).t \in {"str", "None"}
    /\ IsListField(value, K_ingredients) /\ DictGet(value, K_ingredients).v # <<>>
    /\ IsListField(value, K_steps) /\ DictGet(value, K_steps).v # <<>>
    /\ \A x \in ElementsOf(value, K_ingredients) :
          /\ WellFormedIngredient(x)
          /\ DictGet(x, K_qty).t = "str" /\ DictGet(x, K_unit).t = "str"
          /\ DictGet(x, K_item).t = "str"
          /\ strip(DictGet(x, K_qty).s) # <<>>
    /\ \A x \in ElementsOf(value, K_steps) :
          /\ x.t = "dict"
          /\ HasKey(x, K_index) /\ DictGet(x, K_index).t = "int"
          /\ HasKey(x, K_text) /\ DictGet(x, K_text).t = "str"
          /\ HasKey(x, K_timestamp_sec) /\ DictGet(x, K_timestamp_sec).t = "int"

\* C13: when the parsed model output matches the schema, the request returns
\* a Recipe whose title, description, ingredients and steps are the values
\* of the output, element by element in the order of the output.
C13_PassThrough ==
    \A r \in Requests :
        (ValidateActed(r) /\ MatchesSchema(recipe_data[r])) =>
            LET value == recipe_data[r]
                ings == DictGet(value, K_ingredients).v
                stps == DictGet(value, K_steps).v
                got == response[r].recipe
            IN  /\ response[r].status = 200
                /\ got.title = DictGet(value, K_title).s
                /\ got.description =
                      IF HasKey(value, K_description) THEN DictGet(value, K_description)
                      ELSE JNull
                /\ Len(got.ingredients) = Len(ings)
                /\ \A i \in 1..Len(ings) :
                      got.ingredients[i] = Ingredient(DictGet(ings[i], K_qty).s,
                                                      DictGet(ings[i], K_unit).s,
                                                      DictGet(ings[i], K_item).s)
                /\ Len(got.steps) = Len(stps)
                /\ \A i \in 1..Len(stps) :
                      got.steps[i] = Step(DictGet(stps[i], K_index).n,
                                          DictGet(stps[i], K_text).s,
                                          DictGet(stps[i], K_timestamp_sec).n)

\* C13 witness: an output with two different ingredients, the one with a
\* trailing newline in its qty first, and two steps in descending index
\* order was returned
C13_Witness ==
    \E r \in Requests :
        /\ ValidateActed(r)
        /\ parsed_by[r] = "strict"
        /\ MatchesSchema(recipe_data[r])
        /\ DictGet(recipe_data[r], K_ingredients).v = <<escaped_ingredient, good_ingredient>>
        /\ DictGet(recipe_data[r], K_steps).v = <<later_step, good_step>>
        /\ response[r].status = 200
        /\ response[r].recipe.steps[1].index = 2

\* the chat handler of r has built its prompt and issued its call
ChatActed(r) ==
    /\ endpoint[r] = "/chat"
    /\ pc[r] \in {"await_chat", "done"}
    /\ calls[r] # <<>>

\* current_step_index is present and 0 <= current_step_index < len(steps)
IndexInRange(request) ==
    /\ request.current_step_index.t = "int"
    /\ 0 <= request.current_step_index.n
    /\ request.current_step_index.n < Len(request.steps)

\* C14: the prompt of a chat request carries the "Current step" annotation
\* exactly when current_step_index is present and within the steps, and then
\* it quotes the text of the step at that index; for an absent, negative or
\* too large index nothing is added, the handler does not fail and the model
\* is called once.
C14_CurrentStepOnlyInRange ==
    \A r \in Requests :
        ChatActed(r) =>
            /\ startswith(prompt[r], S_current_step) <=> IndexInRange(chat_request[r])
            /\ IndexInRange(chat_request[r]) =>
                  endswith(prompt[r],
                           <<".", " ">> \o chat_request[r].steps[
                               chat_request[r].current_step_index.n + 1].text)
            /\ ~IndexInRange(chat_request[r]) => prompt[r] = <<>>
            /\ calls[r] = <<TEMP_CHAT>>
            /\ (pc[r] = "done" /\ model_failed[r] = "") => response[r].status = 200

\* C14 witness: an index beyond the last step of a full step list was
\* answered with 200 after one call and no annotation
C14_Witness ==
    \E r \in Requests :
        /\ ChatActed(r)
        /\ Len(chat_request[r].steps) = MaxChatSteps
        /\ chat_request[r].current_step_index.t = "int"
        /\ chat_request[r].current_step_index.n > Len(chat_request[r].steps)
        /\ prompt[r] = <<>>
        /\ pc[r] = "done"
        /\ response[r].status = 200

\* the request has passed the point where its endpoint was dispatched
Dispatched(r) == pc[r] \notin {"idle", "dispatch"}

\* C15: an /extract or /chat request whose header is missing, empty or
\* differs from the configured token ends as 401 without any model call;
\* with the matching header it goes on to its handler, which issues a model
\* call before it ends; /health answers 200 whatever the header, without a
\* model call.
C15_TokenGuardsModel ==
    \A r \in Requests :
        /\ (endpoint[r] \in {"/extract", "/chat"} /\ Dispatched(r)
            /\ x_service_token[r] # SERVICE_TOKEN) =>
              /\ pc[r] = "done"
              /\ response[r].status = 401
              /\ calls[r] = <<>>
              /\ returned[r] = 0
        /\ (endpoint[r] \in {"/extract", "/chat"} /\ Dispatched(r)
            /\ x_service_token[r] = SERVICE_TOKEN) =>
              /\ response[r].status # 401
              /\ pc[r] \in {"extract", "chat"} \/ calls[r] # <<>>
        /\ (endpoint[r] = "/health" /\ Dispatched(r)) =>
              /\ pc[r] = "done"
              /\ response[r].status = 200
              /\ calls[r] = <<>>
        /\ calls[r] # <<>> => x_service_token[r] = SERVICE_TOKEN

\* C15 witness: a chat request with a wrong token was refused
C15_Witness ==
    \E r \in Requests :
        /\ endpoint[r] = "/chat"
        /\ x_service_token[r] = "wrong"
        /\ pc[r] = "done"
        /\ response[r] = Resp(401, "Invalid service token", "", 0, <<>>, NoRecipe)
        /\ calls[r] = <<>>

\* the response request r gets when it runs alone, from its own endpoint,
\* header and body and from what the model answered to its own calls
SoloResponse(r) ==
    IF endpoint[r] = "/health" THEN Resp(200, "healthy", "", 0, <<>>, NoRecipe)
    ELSE IF x_service_token[r] \in {"None", ""}
    THEN Resp(401, "Service token header missing", "", 0, <<>>, NoRecipe)
    ELSE IF x_service_token[r] # SERVICE_TOKEN
    THEN Resp(401, "Invalid service token", "", 0, <<>>, NoRecipe)
    ELSE IF endpoint[r] = "/chat"
    THEN IF model_failed[r] = "chat"
         THEN chat_except(Exc("ValueError", "Gemini API error", 0))
         ELSE Resp(200, "", "", 0, content[r], NoRecipe)
    ELSE IF model_failed[r] = "initial"
    THEN extract_except(Exc("ValueError", "Gemini API error", 0))
    ELSE IF Cascade(content[r]).path \in {"strict", "brace"}
    THEN ValidatedResponse(Cascade(content[r]).v)
    ELSE IF Cascade(content[r]).path = "nomatch"
    THEN extract_except(Exc("ValueError", "Invalid JSON response", 0))
    ELSE IF model_failed[r] = "repair" \/ ~RepairParse(repair_response[r]).ok
    THEN RepairFailedResponse
    ELSE ValidatedResponse(RepairParse(repair_response[r]).v)

\* the model calls request r issues when it runs alone
SoloCalls(r) ==
    IF endpoint[r] = "/health" \/ x_service_token[r] # SERVICE_TOKEN THEN <<>>
    ELSE IF endpoint[r] = "/chat" THEN <<TEMP_CHAT>>
    ELSE IF model_failed[r] # "initial" /\ Cascade(content[r]).path = "repair"
    THEN <<TEMP_EXTRACT, TEMP_REPAIR>>
    ELSE <<TEMP_EXTRACT>>

\* everything the service holds for request r
StateOf(r) ==
    <<pc[r], endpoint[r], x_service_token[r], chat_request[r], calls[r], returned[r],
      content[r], repair_response[r], model_failed[r], recipe_data[r], parsed_by[r],
      prompt[r], response[r]>>

\* C16: under every interleaving of concurrent requests, each request ends
\* with the response and the model calls it has when it runs alone on the
\* same input and the same model responses, and a step of one handler
\* leaves everything held for the other requests as it was.
C16_Independent ==
    /\ [](\A r \in Requests :
            pc[r] = "done" => (response[r] = SoloResponse(r) /\ calls[r] = SoloCalls(r)))
    /\ [][\A r \in Requests : pc'[r] = pc[r] => StateOf(r)' = StateOf(r)]_vars

\* C16 witness: one request has returned a Recipe from its repaired response
\* while the other, whose first response was another text, has issued its
\* own repair call
C16_Witness ==
    /\ pc["r1"] = "done"
    /\ parsed_by["r1"] = "repair"
    /\ response["r1"].status = 200
    /\ pc["r2"] = "await_repair"
    /\ content["r2"] # content["r1"]
    /\ calls["r2"] = <<TEMP_EXTRACT, TEMP_REPAIR>>

\* what is wrong with one ingredient, as the message that names it; "" when
\* nothing is
IngredientFault(x) ==
    IF x.t # "dict" THEN "Ingredient is not an object"
    ELSE IF ~WellFormedIngredient(x) THEN "Ingredient missing required fields (qty, unit, item)"
    ELSE IF BlankQty(x) THEN "Ingredient qty must not be empty"
    ELSE ""

\* what is wrong with one step; "" when nothing is
StepFault(x) ==
    IF x.t # "dict" THEN "Step is not an object"
    ELSE IF ~HasKey(x, K_index) \/ ~HasKey(x, K_text) \/ ~HasKey(x, K_timestamp_sec)
    THEN "Step missing required fields"
    ELSE IF PyInt(DictGet(x, K_index)).exc # "" THEN "index"
    ELSE IF PyInt(DictGet(x, K_timestamp_sec)).exc # "" THEN "timestamp_sec"
    ELSE ""

\* position of the first element of a list that has a fault, 0 when none has
FirstFaulty(list, Fault(_)) ==
    IF \E i \in 1..Len(list) : Fault(list[i]) # ""
    THEN Min({i \in 1..Len(list) : Fault(list[i]) # ""})
    ELSE 0

\* the parsed object has the three keys, both arrays are lists, and one of
\* them is empty
ReachesEmptyCheck(value) ==
    /\ HasKey(value, K_title)
    /\ IsListField(value, K_ingredients)
    /\ IsListField(value, K_steps)
    /\ DictGet(value, K_ingredients).v = <<>> \/ DictGet(value, K_steps).v = <<>>

\* the empty-recipe check ends the validation of the object: it declines,
\* or it fails on a description that is no string
EndsAtEmptyCheck(value) ==
    /\ ReachesEmptyCheck(value)
    /\ Declines(value) \/ (HasKey(value, K_description)
                           /\ DictGet(value, K_description).t # "str")

ItemMessages ==
    {"Ingredient is not an object", "Ingredient missing required fields (qty, unit, item)",
     "Ingredient qty must not be empty", "Step is not an object",
     "Step missing required fields", "invalid literal for int() with base 10",
     "int() argument must be a string or a number"}

\* C17: the validation of a parsed object reports the first violation in
\* the order title, ingredients, steps, empty-recipe check, ingredients in
\* array order, steps in array order; the empty-recipe check comes before
\* every per-item check, and a faulty ingredient is reported before any
\* faulty step.
C17_FailFastOrder ==
    \A r \in Requests :
        (ValidateActed(r) /\ recipe_data[r].t = "dict") =>
            LET value == recipe_data[r]
                resp == response[r]
                ings == DictGet(value, K_ingredients).v
                stps == DictGet(value, K_steps).v
                fi == FirstFaulty(ings, IngredientFault)
                fs == FirstFaulty(stps, StepFault)
            IN  IF ~HasKey(value, K_title)
                THEN resp.msg = "Missing 'title' in response"
                ELSE IF ~IsListField(value, K_ingredients)
                THEN resp.msg = "Missing or invalid 'ingredients' in response"
                ELSE IF ~IsListField(value, K_steps)
                THEN resp.msg = "Missing or invalid 'steps' in response"
                ELSE IF EndsAtEmptyCheck(value)
                THEN /\ resp.status # 200
                     /\ resp.msg \notin ItemMessages
                     /\ resp.pos = 0
                     /\ Declines(value) => resp.detail = "Recipe extraction failed"
                ELSE IF fi # 0
                THEN /\ resp.msg = IngredientFault(ings[fi])
                     /\ resp.pos = fi
                ELSE IF fs # 0
                THEN /\ resp.status # 200
                     /\ StepFault(stps[fs]) \notin {"index", "timestamp_sec"} =>
                           (resp.msg = StepFault(stps[fs]) /\ resp.pos = fs)
                     /\ StepFault(stps[fs]) \in {"index", "timestamp_sec"} =>
                           resp.msg \in {"invalid literal for int() with base 10",
                                         "int() argument must be a string or a number"}
                ELSE resp.msg \notin ItemMessages

\* C17 witness: an empty steps array and the declining default description
\* were reported as declined although the first ingredient is no object
C17_Witness ==
    \E r \in Requests :
        /\ ValidateActed(r)
        /\ recipe_data[r].t = "dict"
        /\ Declines(recipe_data[r])
        /\ DictGet(recipe_data[r], K_steps).v = <<>>
        /\ FirstFaulty(DictGet(recipe_data[r], K_ingredients).v, IngredientFault) = 1
        /\ response[r].detail = "Recipe extraction failed"

\* the repair call of extract request r has returned text
RepairReturned(r) ==
    /\ endpoint[r] = "/extract"
    /\ returned[r] = 2
    /\ model_failed[r] = ""

\* C18: the repair response is trimmed and parsed as it is: when that parse
\* succeeds its value goes to validation, and when it fails the request ends
\* as 422 invalid JSON after repair, also for a response whose JSON sits in
\* a code fence or in prose, which the sanitizer or the brace extraction
\* would recover; no further call is issued.
C18_RepairStrictOnly ==
    \A r \in Requests :
        RepairReturned(r) =>
            /\ calls[r] = <<TEMP_EXTRACT, TEMP_REPAIR>>
            /\ pc[r] \in {"validate", "done"}
            /\ json_loads(strip(repair_response[r])).ok =>
                  /\ parsed_by[r] = "repair"
                  /\ recipe_data[r] = json_loads(strip(repair_response[r])).v
            /\ ~json_loads(strip(repair_response[r])).ok =>
                  /\ pc[r] = "done"
                  /\ parsed_by[r] = ""
                  /\ response[r] = RepairFailedResponse
            /\ (~json_loads(strip(repair_response[r])).ok
                /\ (StrictParses(repair_response[r]) \/ BraceParses(repair_response[r]))) =>
                  /\ response[r] = RepairFailedResponse
                  /\ recipe_data[r] = JNull

\* C18 witness: a repair response that holds a valid recipe between a json
\* fence line and a closing fence line ended as 422
C18_Witness ==
    \E r \in Requests :
        /\ RepairReturned(r)
        /\ repair_response[r] = Fenced(<<" ", "\n">>, json_dumps(valid_recipe), <<"\n", "\t", " ">>)
        /\ StrictParses(repair_response[r])
        /\ response[r] = RepairFailedResponse
        /\ calls[r] = <<TEMP_EXTRACT, TEMP_REPAIR>>

\* the validation of the parsed value reaches the step loop of lines 257-268
ReachesStepLoop(value) ==
    /\ value.t = "dict"
    /\ HasKey(value, K_title)
    /\ IsListField(value, K_ingredients)
    /\ IsListField(value, K_steps)
    /\ ~EndsAtEmptyCheck(value)
    /\ FirstFaulty(DictGet(value, K_ingredients).v, IngredientFault) = 0

\* C19: when a step is no object, lacks index, text or timestamp_sec, or has
\* an index or timestamp_sec that fails the integer coercion, the recipe is
\* rejected and the rejection carries the 1-based position of the first such
\* step.
C19_StepRejectionNamesPosition ==
    \A r \in Requests :
        (ValidateActed(r) /\ ReachesStepLoop(recipe_data[r])
         /\ FirstFaulty(DictGet(recipe_data[r], K_steps).v, StepFault) # 0) =>
            /\ response[r].status # 200
            /\ response[r].recipe = NoRecipe
            /\ response[r].pos = FirstFaulty(DictGet(recipe_data[r], K_steps).v, StepFault)

\* the description of the parsed object is a string that contains "error"
\* or "no recipe" in any case
DecliningDescription(value) ==
    /\ HasKey(value, K_description)
    /\ DictGet(value, K_description).t = "str"
    /\ contains(lower(DictGet(value, K_description).s), S_error)
       \/ contains(lower(DictGet(value, K_description).s), S_no_recipe)

\* C20: a parsed object with a title, at least one ingredient and at least
\* one step is never answered as declined, whatever its description; when
\* it matches the schema and its description contains "error" or "no
\* recipe", it is returned as a Recipe with that description.
C20_DeclinedOnlyWhenEmpty ==
    \A r \in Requests :
        /\ (ValidateActed(r) /\ recipe_data[r].t = "dict"
            /\ IsListField(recipe_data[r], K_ingredients)
            /\ IsListField(recipe_data[r], K_steps)
            /\ DictGet(recipe_data[r], K_ingredients).v # <<>>
            /\ DictGet(recipe_data[r], K_steps).v # <<>>) =>
              response[r].detail # "Recipe extraction failed"
        /\ (ValidateActed(r) /\ MatchesSchema(recipe_data[r])
            /\ DecliningDescription(recipe_data[r])) =>
              /\ response[r].status = 200
              /\ response[r].recipe.description = DictGet(recipe_data[r], K_description)
              /\ response[r].recipe.ingredients # <<>>
              /\ response[r].recipe.steps # <<>>
        /\ (pc[r] = "done" /\ response[r].detail = "Recipe extraction failed") =>
              ReachesEmptyCheck(recipe_data[r])

\* C20 witness: a recipe with one ingredient, one step and the description
\* "an ERROR" was returned with that description
C20_Witness ==
    \E r \in Requests :
        /\ ValidateActed(r)
        /\ MatchesSchema(recipe_data[r])
        /\ DecliningDescription(recipe_data[r])
        /\ response[r].status = 200
        /\ response[r].recipe.description = JStr(D_error)

====
